---- MODULE Spec2Model ----
(***************************************************************************)
(* Liu Yao divination engine: calendar resolver, hexagram resolver, line   *)
(* installer (najia), guardian assigner, strength analyzer, relation       *)
(* analyzer, focus selector and interpretation generator, run in order by  *)
(* castHexagram.                                                           *)
(*                                                                         *)
(* Encoding of the closed domains (the source uses Chinese characters):    *)
(*   stems     jia yi bing ding wu ji geng xin ren gui                     *)
(*   branches  ZI CHOU YIN MAO CHEN SI WU WEI SHEN YOU XU HAI               *)
(*   elements  wood fire earth metal water                                 *)
(*   trigrams  Qian Dui Li Zhen Xun Kan Gen Kun                            *)
(*   roles     FuMu XiongDi ZiSun QiCai GuanGui                            *)
(*   a binary key "111000" is the tuple <<1,1,1,0,0,0>>                    *)
(***************************************************************************)
EXTENDS Integers, Sequences, FiniteSets, TLC

\* ---------------------------------------------------------------- helpers
None == "none"

\* Array.prototype.indexOf, 0-based, -1 when absent
IndexOf(seq, x) ==
  IF \E i \in 1..Len(seq) : seq[i] = x
  THEN (CHOOSE i \in 1..Len(seq) : seq[i] = x /\ \A j \in 1..(i-1) : seq[j] # x) - 1
  ELSE -1

\* seq[i] for a 0-based index
At(seq, i) == seq[i + 1]

\* ------------------------------------------------------ constants.ts
TIAN_GAN == <<"jia", "yi", "bing", "ding", "wu", "ji", "geng", "xin", "ren", "gui">>

DI_ZHI == <<"ZI", "CHOU", "YIN", "MAO", "CHEN", "SI", "WU", "WEI", "SHEN", "YOU", "XU", "HAI">>

RECURSIVE IndexTable(_, _)
\* x -> seq.indexOf(x) for the elements of seq from position k on (first occurrence)
IndexTable(seq, k) ==
  IF k > Len(seq) THEN <<>> ELSE (seq[k] :> (k - 1)) @@ IndexTable(seq, k + 1)

DI_ZHI_INDEX == IndexTable(DI_ZHI, 1)

TIAN_GAN_INDEX == IndexTable(TIAN_GAN, 1)

\* DI_ZHI.indexOf(zhi)
getDiZhiIndex(zhi) == IF zhi \in DOMAIN DI_ZHI_INDEX THEN DI_ZHI_INDEX[zhi] ELSE -1

\* TIAN_GAN.indexOf(gan)
getTianGanIndex(gan) == IF gan \in DOMAIN TIAN_GAN_INDEX THEN TIAN_GAN_INDEX[gan] ELSE -1

WuXingSet == {"wood", "fire", "earth", "metal", "water"}

DI_ZHI_WU_XING ==
  [ZI |-> "water", CHOU |-> "earth", YIN |-> "wood", MAO |-> "wood",
   CHEN |-> "earth", SI |-> "fire", WU |-> "fire", WEI |-> "earth",
   SHEN |-> "metal", YOU |-> "metal", XU |-> "earth", HAI |-> "water"]

WU_XING_SHENG ==
  [wood |-> "fire", fire |-> "earth", earth |-> "metal", metal |-> "water", water |-> "wood"]

WU_XING_KE ==
  [wood |-> "earth", earth |-> "water", water |-> "fire", fire |-> "metal", metal |-> "wood"]

WU_XING_BEI_SHENG ==
  [wood |-> "water", fire |-> "wood", earth |-> "fire", metal |-> "earth", water |-> "metal"]

WU_XING_BEI_KE ==
  [wood |-> "metal", fire |-> "water", earth |-> "wood", metal |-> "fire", water |-> "earth"]

DI_ZHI_CHONG ==
  [ZI |-> "WU", CHOU |-> "WEI", YIN |-> "SHEN", MAO |-> "YOU",
   CHEN |-> "XU", SI |-> "HAI", WU |-> "ZI", WEI |-> "CHOU",
   SHEN |-> "YIN", YOU |-> "MAO", XU |-> "CHEN", HAI |-> "SI"]

DI_ZHI_HE ==
  [ZI |-> "CHOU", CHOU |-> "ZI", YIN |-> "HAI", MAO |-> "XU",
   CHEN |-> "YOU", SI |-> "SHEN", WU |-> "WEI", WEI |-> "WU",
   SHEN |-> "SI", YOU |-> "CHEN", XU |-> "MAO", HAI |-> "YIN"]

\* DI_ZHI_SAN_HE in the order of its keys: the three branches and the element
DI_ZHI_SAN_HE ==
  <<[zhis |-> {"SHEN", "ZI", "CHEN"}, wuXing |-> "water"],
    [zhis |-> {"YIN", "WU", "XU"},    wuXing |-> "fire"],
    [zhis |-> {"SI", "YOU", "CHOU"},  wuXing |-> "metal"],
    [zhis |-> {"HAI", "MAO", "WEI"},  wuXing |-> "wood"]>>

DI_ZHI_HAI ==
  [ZI |-> "WEI", CHOU |-> "WU", YIN |-> "SI", MAO |-> "CHEN",
   CHEN |-> "MAO", SI |-> "YIN", WU |-> "CHOU", WEI |-> "ZI",
   SHEN |-> "HAI", YOU |-> "XU", XU |-> "YOU", HAI |-> "SHEN"]

DI_ZHI_XING ==
  [ZI |-> {"MAO"}, MAO |-> {"ZI"},
   YIN |-> {"SI", "SHEN"}, SI |-> {"YIN", "SHEN"}, SHEN |-> {"YIN", "SI"},
   CHOU |-> {"XU", "WEI"}, XU |-> {"CHOU", "WEI"}, WEI |-> {"CHOU", "XU"},
   CHEN |-> {"CHEN"}, WU |-> {"WU"}, YOU |-> {"YOU"}, HAI |-> {"HAI"}]

BaGuaSet == {"Qian", "Dui", "Li", "Zhen", "Xun", "Kan", "Gen", "Kun"}

\* name, binary, wuXing, number and naJiaTianGan of BA_GUA_DATA
BA_GUA_DATA ==
  [Qian |-> [binary |-> <<1,1,1>>, wuXing |-> "metal", number |-> 1, naJiaTianGan |-> [yang |-> "jia",  yin |-> "ren"]],
   Dui  |-> [binary |-> <<0,1,1>>, wuXing |-> "metal", number |-> 2, naJiaTianGan |-> [yang |-> "ding", yin |-> "ding"]],
   Li   |-> [binary |-> <<1,0,1>>, wuXing |-> "fire",  number |-> 3, naJiaTianGan |-> [yang |-> "ji",   yin |-> "ji"]],
   Zhen |-> [binary |-> <<0,0,1>>, wuXing |-> "wood",  number |-> 4, naJiaTianGan |-> [yang |-> "geng", yin |-> "geng"]],
   Xun  |-> [binary |-> <<1,1,0>>, wuXing |-> "wood",  number |-> 5, naJiaTianGan |-> [yang |-> "xin",  yin |-> "xin"]],
   Kan  |-> [binary |-> <<0,1,0>>, wuXing |-> "water", number |-> 6, naJiaTianGan |-> [yang |-> "wu",   yin |-> "wu"]],
   Gen  |-> [binary |-> <<1,0,0>>, wuXing |-> "earth", number |-> 7, naJiaTianGan |-> [yang |-> "bing", yin |-> "bing"]],
   Kun  |-> [binary |-> <<0,0,0>>, wuXing |-> "earth", number |-> 8, naJiaTianGan |-> [yang |-> "yi",   yin |-> "gui"]]]

NA_JIA_DI_ZHI ==
  [Qian |-> <<"ZI", "YIN", "CHEN", "WU", "SHEN", "XU">>,
   Kun  |-> <<"WEI", "SI", "MAO", "CHOU", "HAI", "YOU">>,
   Zhen |-> <<"ZI", "YIN", "CHEN", "WU", "SHEN", "XU">>,
   Xun  |-> <<"CHOU", "HAI", "YOU", "WEI", "SI", "MAO">>,
   Kan  |-> <<"YIN", "CHEN", "WU", "SHEN", "XU", "ZI">>,
   Li   |-> <<"MAO", "CHOU", "HAI", "YOU", "WEI", "SI">>,
   Gen  |-> <<"CHEN", "WU", "SHEN", "XU", "ZI", "YIN">>,
   Dui  |-> <<"SI", "MAO", "CHOU", "HAI", "YOU", "WEI">>]

LIU_SHEN_START ==
  [jia |-> "QingLong", yi |-> "QingLong", bing |-> "ZhuQue", ding |-> "ZhuQue",
   wu |-> "GouChen", ji |-> "TengShe", geng |-> "BaiHu", xin |-> "BaiHu",
   ren |-> "XuanWu", gui |-> "XuanWu"]

LIU_SHEN_ORDER == <<"QingLong", "ZhuQue", "GouChen", "TengShe", "BaiHu", "XuanWu">>

\* mutant: the generating and the generated element change places
getLiuQin_Inverted(myWuXing, targetWuXing) ==
  IF WU_XING_SHENG[myWuXing] = targetWuXing THEN "FuMu"
  ELSE IF WU_XING_BEI_SHENG[myWuXing] = targetWuXing THEN "ZiSun"
  ELSE IF WU_XING_BEI_KE[myWuXing] = targetWuXing THEN "GuanGui"
  ELSE IF WU_XING_KE[myWuXing] = targetWuXing THEN "QiCai"
  ELSE "XiongDi"

getLiuQin(myWuXing, targetWuXing) ==
  IF WU_XING_BEI_SHENG[myWuXing] = targetWuXing THEN "FuMu"
  ELSE IF WU_XING_SHENG[myWuXing] = targetWuXing THEN "ZiSun"
  ELSE IF WU_XING_BEI_KE[myWuXing] = targetWuXing THEN "GuanGui"
  ELSE IF WU_XING_KE[myWuXing] = targetWuXing THEN "QiCai"
  ELSE "XiongDi"

TWELVE_STAGES ==
  <<"ChangSheng", "MuYu", "GuanDai", "LinGuan", "DiWang", "Shuai",
    "Bing", "Si", "Mu", "Jue", "Tai", "Yang">>

\* the yang starting branch of WU_XING_CHANG_SHENG_START
WU_XING_CHANG_SHENG_START ==
  [wood  |-> [yang |-> "HAI",  yin |-> "WU"],
   fire  |-> [yang |-> "YIN",  yin |-> "YOU"],
   earth |-> [yang |-> "YIN",  yin |-> "YOU"],
   metal |-> [yang |-> "SI",   yin |-> "ZI"],
   water |-> [yang |-> "SHEN", yin |-> "MAO"]]

getProsperityByMonth(targetWuXing, monthWuXing) ==
  IF targetWuXing = monthWuXing THEN "wang"
  ELSE IF WU_XING_BEI_SHENG[monthWuXing] = targetWuXing THEN "xiang"
  ELSE IF WU_XING_SHENG[targetWuXing] = monthWuXing THEN "xiu"
  ELSE IF WU_XING_KE[targetWuXing] = monthWuXing THEN "qiu"
  ELSE IF WU_XING_BEI_KE[targetWuXing] = monthWuXing THEN "si"
  ELSE "xiu"

\* GUA_64_DATA as written, one entry per object-literal property, in source order
GUA_64_ENTRIES ==
  <<
    [key |-> <<1,1,1,1,1,1>>, name |-> "QianWeiTian", sequence |-> 1, upperGua |-> "Qian", lowerGua |-> "Qian", palace |-> "Qian", worldPosition |-> 6, responsePosition |-> 3, wuXing |-> "metal"],
    [key |-> <<1,1,1,1,1,0>>, name |-> "TianFengGou", sequence |-> 2, upperGua |-> "Qian", lowerGua |-> "Xun", palace |-> "Qian", worldPosition |-> 1, responsePosition |-> 4, wuXing |-> "metal"],
    [key |-> <<1,1,1,0,0,1>>, name |-> "TianShanDun", sequence |-> 3, upperGua |-> "Qian", lowerGua |-> "Gen", palace |-> "Qian", worldPosition |-> 2, responsePosition |-> 5, wuXing |-> "metal"],
    [key |-> <<1,1,1,0,0,0>>, name |-> "TianDiPi", sequence |-> 4, upperGua |-> "Qian", lowerGua |-> "Kun", palace |-> "Qian", worldPosition |-> 3, responsePosition |-> 6, wuXing |-> "metal"],
    [key |-> <<1,1,0,0,0,0>>, name |-> "FengDiGuan", sequence |-> 5, upperGua |-> "Xun", lowerGua |-> "Kun", palace |-> "Qian", worldPosition |-> 4, responsePosition |-> 1, wuXing |-> "metal"],
    [key |-> <<1,0,0,0,0,0>>, name |-> "ShanDiBo", sequence |-> 6, upperGua |-> "Gen", lowerGua |-> "Kun", palace |-> "Qian", worldPosition |-> 5, responsePosition |-> 2, wuXing |-> "metal"],
    [key |-> <<1,0,1,0,0,0>>, name |-> "HuoDiJin", sequence |-> 7, upperGua |-> "Li", lowerGua |-> "Kun", palace |-> "Qian", worldPosition |-> 4, responsePosition |-> 1, wuXing |-> "metal"],
    [key |-> <<1,0,1,1,1,1>>, name |-> "HuoTianDaYou", sequence |-> 8, upperGua |-> "Li", lowerGua |-> "Qian", palace |-> "Qian", worldPosition |-> 3, responsePosition |-> 6, wuXing |-> "metal"],
    [key |-> <<0,1,1,0,1,1>>, name |-> "DuiWeiZe", sequence |-> 9, upperGua |-> "Dui", lowerGua |-> "Dui", palace |-> "Dui", worldPosition |-> 6, responsePosition |-> 3, wuXing |-> "metal"],
    [key |-> <<0,1,1,0,1,0>>, name |-> "ZeShuiKun", sequence |-> 10, upperGua |-> "Dui", lowerGua |-> "Kan", palace |-> "Dui", worldPosition |-> 1, responsePosition |-> 4, wuXing |-> "metal"],
    [key |-> <<0,1,1,0,0,0>>, name |-> "ZeDiCui", sequence |-> 11, upperGua |-> "Dui", lowerGua |-> "Kun", palace |-> "Dui", worldPosition |-> 2, responsePosition |-> 5, wuXing |-> "metal"],
    [key |-> <<0,1,1,1,0,0>>, name |-> "ZeShanXian", sequence |-> 12, upperGua |-> "Dui", lowerGua |-> "Gen", palace |-> "Dui", worldPosition |-> 3, responsePosition |-> 6, wuXing |-> "metal"],
    [key |-> <<0,1,0,1,0,0>>, name |-> "ShuiShanJian", sequence |-> 13, upperGua |-> "Kan", lowerGua |-> "Gen", palace |-> "Dui", worldPosition |-> 4, responsePosition |-> 1, wuXing |-> "metal"],
    [key |-> <<0,0,0,1,0,0>>, name |-> "DiShanQian", sequence |-> 14, upperGua |-> "Kun", lowerGua |-> "Gen", palace |-> "Dui", worldPosition |-> 5, responsePosition |-> 2, wuXing |-> "metal"],
    [key |-> <<0,0,1,1,0,0>>, name |-> "LeiShanXiaoGuo", sequence |-> 15, upperGua |-> "Zhen", lowerGua |-> "Gen", palace |-> "Dui", worldPosition |-> 4, responsePosition |-> 1, wuXing |-> "metal"],
    [key |-> <<0,0,1,0,1,1>>, name |-> "LeiZeGuiMei", sequence |-> 16, upperGua |-> "Zhen", lowerGua |-> "Dui", palace |-> "Dui", worldPosition |-> 3, responsePosition |-> 6, wuXing |-> "metal"],
    [key |-> <<1,0,1,1,0,1>>, name |-> "LiWeiHuo", sequence |-> 17, upperGua |-> "Li", lowerGua |-> "Li", palace |-> "Li", worldPosition |-> 6, responsePosition |-> 3, wuXing |-> "fire"],
    [key |-> <<1,0,1,0,0,1>>, name |-> "HuoShanLv", sequence |-> 18, upperGua |-> "Li", lowerGua |-> "Gen", palace |-> "Li", worldPosition |-> 1, responsePosition |-> 4, wuXing |-> "fire"],
    [key |-> <<1,0,1,1,1,0>>, name |-> "HuoFengDing", sequence |-> 19, upperGua |-> "Li", lowerGua |-> "Xun", palace |-> "Li", worldPosition |-> 2, responsePosition |-> 5, wuXing |-> "fire"],
    [key |-> <<1,0,1,0,1,1>>, name |-> "HuoShuiWeiJi", sequence |-> 20, upperGua |-> "Li", lowerGua |-> "Kan", palace |-> "Li", worldPosition |-> 3, responsePosition |-> 6, wuXing |-> "fire"],
    [key |-> <<1,0,0,0,1,1>>, name |-> "ShanShuiMeng", sequence |-> 21, upperGua |-> "Gen", lowerGua |-> "Kan", palace |-> "Li", worldPosition |-> 4, responsePosition |-> 1, wuXing |-> "fire"],
    [key |-> <<1,1,0,0,1,1>>, name |-> "FengShuiHuan", sequence |-> 22, upperGua |-> "Xun", lowerGua |-> "Kan", palace |-> "Li", worldPosition |-> 5, responsePosition |-> 2, wuXing |-> "fire"],
    [key |-> <<1,1,1,0,1,1>>, name |-> "TianShuiSong", sequence |-> 23, upperGua |-> "Qian", lowerGua |-> "Kan", palace |-> "Li", worldPosition |-> 4, responsePosition |-> 1, wuXing |-> "fire"],
    [key |-> <<1,1,1,1,0,1>>, name |-> "TianHuoTongRen", sequence |-> 24, upperGua |-> "Qian", lowerGua |-> "Li", palace |-> "Li", worldPosition |-> 3, responsePosition |-> 6, wuXing |-> "fire"],
    [key |-> <<0,0,1,0,0,1>>, name |-> "ZhenWeiLei", sequence |-> 25, upperGua |-> "Zhen", lowerGua |-> "Zhen", palace |-> "Zhen", worldPosition |-> 6, responsePosition |-> 3, wuXing |-> "wood"],
    [key |-> <<0,0,1,0,0,0>>, name |-> "LeiDiYu", sequence |-> 26, upperGua |-> "Zhen", lowerGua |-> "Kun", palace |-> "Zhen", worldPosition |-> 1, responsePosition |-> 4, wuXing |-> "wood"],
    [key |-> <<0,0,1,0,1,0>>, name |-> "LeiShuiJie", sequence |-> 27, upperGua |-> "Zhen", lowerGua |-> "Kan", palace |-> "Zhen", worldPosition |-> 2, responsePosition |-> 5, wuXing |-> "wood"],
    [key |-> <<0,0,1,1,1,0>>, name |-> "LeiFengHeng", sequence |-> 28, upperGua |-> "Zhen", lowerGua |-> "Xun", palace |-> "Zhen", worldPosition |-> 3, responsePosition |-> 6, wuXing |-> "wood"],
    [key |-> <<0,0,0,1,1,0>>, name |-> "DiFengSheng", sequence |-> 29, upperGua |-> "Kun", lowerGua |-> "Xun", palace |-> "Zhen", worldPosition |-> 4, responsePosition |-> 1, wuXing |-> "wood"],
    [key |-> <<0,1,0,1,1,0>>, name |-> "ShuiFengJing", sequence |-> 30, upperGua |-> "Kan", lowerGua |-> "Xun", palace |-> "Zhen", worldPosition |-> 5, responsePosition |-> 2, wuXing |-> "wood"],
    [key |-> <<0,1,1,1,1,0>>, name |-> "ZeFengDaGuo", sequence |-> 31, upperGua |-> "Dui", lowerGua |-> "Xun", palace |-> "Zhen", worldPosition |-> 4, responsePosition |-> 1, wuXing |-> "wood"],
    [key |-> <<0,1,1,0,0,1>>, name |-> "ZeLeiSui", sequence |-> 32, upperGua |-> "Dui", lowerGua |-> "Zhen", palace |-> "Zhen", worldPosition |-> 3, responsePosition |-> 6, wuXing |-> "wood"],
    [key |-> <<1,1,0,1,1,0>>, name |-> "XunWeiFeng", sequence |-> 33, upperGua |-> "Xun", lowerGua |-> "Xun", palace |-> "Xun", worldPosition |-> 6, responsePosition |-> 3, wuXing |-> "wood"],
    [key |-> <<1,1,0,1,1,1>>, name |-> "FengTianXiaoXu", sequence |-> 34, upperGua |-> "Xun", lowerGua |-> "Qian", palace |-> "Xun", worldPosition |-> 1, responsePosition |-> 4, wuXing |-> "wood"],
    [key |-> <<1,1,0,1,0,1>>, name |-> "FengHuoJiaRen", sequence |-> 35, upperGua |-> "Xun", lowerGua |-> "Li", palace |-> "Xun", worldPosition |-> 2, responsePosition |-> 5, wuXing |-> "wood"],
    [key |-> <<1,1,0,1,0,0>>, name |-> "FengLeiYi", sequence |-> 36, upperGua |-> "Xun", lowerGua |-> "Zhen", palace |-> "Xun", worldPosition |-> 3, responsePosition |-> 6, wuXing |-> "wood"],
    [key |-> <<1,1,1,1,0,0>>, name |-> "TianLeiWuWang", sequence |-> 37, upperGua |-> "Qian", lowerGua |-> "Zhen", palace |-> "Xun", worldPosition |-> 4, responsePosition |-> 1, wuXing |-> "wood"],
    [key |-> <<1,0,1,1,0,0>>, name |-> "HuoLeiShiHe", sequence |-> 38, upperGua |-> "Li", lowerGua |-> "Zhen", palace |-> "Xun", worldPosition |-> 5, responsePosition |-> 2, wuXing |-> "wood"],
    [key |-> <<1,0,0,0,0,1>>, name |-> "ShanLeiYi", sequence |-> 39, upperGua |-> "Gen", lowerGua |-> "Zhen", palace |-> "Xun", worldPosition |-> 4, responsePosition |-> 1, wuXing |-> "wood"],
    [key |-> <<1,0,0,1,1,0>>, name |-> "ShanFengGu", sequence |-> 40, upperGua |-> "Gen", lowerGua |-> "Xun", palace |-> "Xun", worldPosition |-> 3, responsePosition |-> 6, wuXing |-> "wood"],
    [key |-> <<0,1,0,0,1,0>>, name |-> "KanWeiShui", sequence |-> 41, upperGua |-> "Kan", lowerGua |-> "Kan", palace |-> "Kan", worldPosition |-> 6, responsePosition |-> 3, wuXing |-> "water"],
    [key |-> <<0,1,0,0,1,1>>, name |-> "ShuiZeJie", sequence |-> 42, upperGua |-> "Kan", lowerGua |-> "Dui", palace |-> "Kan", worldPosition |-> 1, responsePosition |-> 4, wuXing |-> "water"],
    [key |-> <<0,1,0,0,0,1>>, name |-> "ShuiLeiZhun", sequence |-> 43, upperGua |-> "Kan", lowerGua |-> "Zhen", palace |-> "Kan", worldPosition |-> 2, responsePosition |-> 5, wuXing |-> "water"],
    [key |-> <<0,1,0,1,0,1>>, name |-> "ShuiHuoJiJi", sequence |-> 44, upperGua |-> "Kan", lowerGua |-> "Li", palace |-> "Kan", worldPosition |-> 3, responsePosition |-> 6, wuXing |-> "water"],
    [key |-> <<0,1,1,1,0,1>>, name |-> "ZeHuoGe", sequence |-> 45, upperGua |-> "Dui", lowerGua |-> "Li", palace |-> "Kan", worldPosition |-> 4, responsePosition |-> 1, wuXing |-> "water"],
    [key |-> <<0,0,1,1,0,1>>, name |-> "LeiHuoFeng", sequence |-> 46, upperGua |-> "Zhen", lowerGua |-> "Li", palace |-> "Kan", worldPosition |-> 5, responsePosition |-> 2, wuXing |-> "water"],
    [key |-> <<0,0,0,1,0,1>>, name |-> "DiHuoMingYi", sequence |-> 47, upperGua |-> "Kun", lowerGua |-> "Li", palace |-> "Kan", worldPosition |-> 4, responsePosition |-> 1, wuXing |-> "water"],
    [key |-> <<0,0,0,0,1,0>>, name |-> "DiShuiShi", sequence |-> 48, upperGua |-> "Kun", lowerGua |-> "Kan", palace |-> "Kan", worldPosition |-> 3, responsePosition |-> 6, wuXing |-> "water"],
    [key |-> <<1,0,0,1,0,0>>, name |-> "GenWeiShan", sequence |-> 49, upperGua |-> "Gen", lowerGua |-> "Gen", palace |-> "Gen", worldPosition |-> 6, responsePosition |-> 3, wuXing |-> "earth"],
    [key |-> <<1,0,0,1,0,1>>, name |-> "ShanHuoBi", sequence |-> 50, upperGua |-> "Gen", lowerGua |-> "Li", palace |-> "Gen", worldPosition |-> 1, responsePosition |-> 4, wuXing |-> "earth"],
    [key |-> <<1,0,0,1,1,1>>, name |-> "ShanTianDaXu", sequence |-> 51, upperGua |-> "Gen", lowerGua |-> "Qian", palace |-> "Gen", worldPosition |-> 2, responsePosition |-> 5, wuXing |-> "earth"],
    [key |-> <<1,0,0,0,1,0>>, name |-> "ShanZeSun", sequence |-> 52, upperGua |-> "Gen", lowerGua |-> "Dui", palace |-> "Gen", worldPosition |-> 3, responsePosition |-> 6, wuXing |-> "earth"],
    [key |-> <<1,0,1,0,1,0>>, name |-> "HuoZeKui", sequence |-> 53, upperGua |-> "Li", lowerGua |-> "Dui", palace |-> "Gen", worldPosition |-> 4, responsePosition |-> 1, wuXing |-> "earth"],
    [key |-> <<1,1,1,0,1,0>>, name |-> "TianZeLv", sequence |-> 54, upperGua |-> "Qian", lowerGua |-> "Dui", palace |-> "Gen", worldPosition |-> 5, responsePosition |-> 2, wuXing |-> "earth"],
    [key |-> <<1,1,0,0,1,0>>, name |-> "FengZeZhongFu", sequence |-> 55, upperGua |-> "Xun", lowerGua |-> "Dui", palace |-> "Gen", worldPosition |-> 4, responsePosition |-> 1, wuXing |-> "earth"],
    [key |-> <<1,1,0,0,0,1>>, name |-> "FengShanJian", sequence |-> 56, upperGua |-> "Xun", lowerGua |-> "Gen", palace |-> "Gen", worldPosition |-> 3, responsePosition |-> 6, wuXing |-> "earth"],
    [key |-> <<0,0,0,0,0,0>>, name |-> "KunWeiDi", sequence |-> 57, upperGua |-> "Kun", lowerGua |-> "Kun", palace |-> "Kun", worldPosition |-> 6, responsePosition |-> 3, wuXing |-> "earth"],
    [key |-> <<0,0,0,0,0,1>>, name |-> "DiLeiFu", sequence |-> 58, upperGua |-> "Kun", lowerGua |-> "Zhen", palace |-> "Kun", worldPosition |-> 1, responsePosition |-> 4, wuXing |-> "earth"],
    [key |-> <<0,0,0,0,1,1>>, name |-> "DiZeLin", sequence |-> 59, upperGua |-> "Kun", lowerGua |-> "Dui", palace |-> "Kun", worldPosition |-> 2, responsePosition |-> 5, wuXing |-> "earth"],
    [key |-> <<0,0,0,1,1,1>>, name |-> "DiTianTai", sequence |-> 60, upperGua |-> "Kun", lowerGua |-> "Qian", palace |-> "Kun", worldPosition |-> 3, responsePosition |-> 6, wuXing |-> "earth"],
    [key |-> <<0,0,1,1,1,1>>, name |-> "LeiTianDaZhuang", sequence |-> 61, upperGua |-> "Zhen", lowerGua |-> "Qian", palace |-> "Kun", worldPosition |-> 4, responsePosition |-> 1, wuXing |-> "earth"],
    [key |-> <<0,1,1,1,1,1>>, name |-> "ZeTianGuai", sequence |-> 62, upperGua |-> "Dui", lowerGua |-> "Qian", palace |-> "Kun", worldPosition |-> 5, responsePosition |-> 2, wuXing |-> "earth"],
    [key |-> <<0,1,0,1,1,1>>, name |-> "ShuiTianXu", sequence |-> 63, upperGua |-> "Kan", lowerGua |-> "Qian", palace |-> "Kun", worldPosition |-> 4, responsePosition |-> 1, wuXing |-> "earth"],
    [key |-> <<0,1,0,0,0,0>>, name |-> "ShuiDiBi", sequence |-> 64, upperGua |-> "Kan", lowerGua |-> "Kun", palace |-> "Kun", worldPosition |-> 3, responsePosition |-> 6, wuXing |-> "earth"]
  >>

\* WORLD_RESPONSE_POSITIONS, indexed by the position of the hexagram in its palace
WORLD_RESPONSE_POSITIONS ==
  <<[world |-> 6, response |-> 3], [world |-> 1, response |-> 4],
    [world |-> 2, response |-> 5], [world |-> 3, response |-> 6],
    [world |-> 4, response |-> 1], [world |-> 5, response |-> 2],
    [world |-> 4, response |-> 1], [world |-> 3, response |-> 6]>>

\* the property names of the GUA_64_DATA object
RECURSIVE ObjectLiteral(_, _)
\* the object an object literal with these properties denotes: a later property
\* with the same key replaces an earlier one
ObjectLiteral(entries, n) ==
  IF n = 0 THEN <<>>
  ELSE (entries[n].key :> entries[n]) @@ ObjectLiteral(entries, n - 1)

\* mutant: the response line is put on the world line
GUA_64_DATA_ResponseOnWorld ==
  LET table == ObjectLiteral(GUA_64_ENTRIES, Len(GUA_64_ENTRIES))
  IN [k \in DOMAIN table |-> [table[k] EXCEPT !.responsePosition = table[k].worldPosition]]

GUA_64_DATA == ObjectLiteral(GUA_64_ENTRIES, Len(GUA_64_ENTRIES))

GuaKeys == DOMAIN GUA_64_DATA

\* a GuaInfo-shaped value that is no hexagram: tag is "undefined" (a spread of
\* undefined), "null" (getChangedGua without moving line) or "throw" (new Error)
NoGua(tag, binary) ==
  [name |-> tag, sequence |-> 0, upperGua |-> None, lowerGua |-> None,
   palace |-> None, worldPosition |-> 0, responsePosition |-> 0,
   wuXing |-> None, binary |-> binary]

IsGua(g) == g.name \notin {"undefined", "null", "throw"}

\* { ...guaData, binary }; spreading undefined leaves only binary
SpreadGua(binary) ==
  IF binary \in GuaKeys
  THEN LET g == GUA_64_DATA[binary]
       IN [name |-> g.name, sequence |-> g.sequence, upperGua |-> g.upperGua,
           lowerGua |-> g.lowerGua, palace |-> g.palace,
           worldPosition |-> g.worldPosition, responsePosition |-> g.responsePosition,
           wuXing |-> g.wuXing, binary |-> binary]
  ELSE NoGua("undefined", binary)

\* ------------------------------------------------------ hexagram.ts
coinSumToYaoState(sum) ==
  CASE sum = 6 -> [yinYang |-> "yin",  isMoving |-> TRUE,  type |-> "old_yin",    coinResult |-> 6]
    [] sum = 7 -> [yinYang |-> "yang", isMoving |-> FALSE, type |-> "young_yang", coinResult |-> 7]
    [] sum = 8 -> [yinYang |-> "yin",  isMoving |-> FALSE, type |-> "young_yin",  coinResult |-> 8]
    [] sum = 9 -> [yinYang |-> "yang", isMoving |-> TRUE,  type |-> "old_yang",   coinResult |-> 9]

\* y.yinYang === 'yang' ? '1' : '0'
Bit(y) == IF y.yinYang = "yang" THEN 1 ELSE 0

\* y.yinYang === 'yang' ? '0' : '1'
FlipBit(y) == IF y.yinYang = "yang" THEN 0 ELSE 1

\* chars.join(''): the key built from the mapped characters
Join(chars) == <<>> \o chars

\* mutant: the key is read from the top line down
getGuaFromYaoStates_TopDown(yaoStates) ==
  LET binary == [i \in 1..Len(yaoStates) |-> Bit(yaoStates[Len(yaoStates) + 1 - i])]
  IN IF binary \notin GuaKeys THEN NoGua("throw", binary) ELSE SpreadGua(binary)

getGuaFromYaoStates(yaoStates) ==
  LET binary == [i \in 1..Len(yaoStates) |-> Bit(yaoStates[i])]
  IN IF binary \notin GuaKeys THEN NoGua("throw", binary) ELSE SpreadGua(binary)

\* mutant: once a line is moving, every line is inverted
getChangedGua_FlipAll(yaoStates) ==
  IF \E i \in 1..Len(yaoStates) : yaoStates[i].isMoving
  THEN SpreadGua(Join([i \in 1..Len(yaoStates) |-> FlipBit(yaoStates[i])]))
  ELSE NoGua("null", <<>>)

\* null when no line is moving
getChangedGua(yaoStates) ==
  LET hasMoving == \E i \in 1..Len(yaoStates) : yaoStates[i].isMoving
      changedBinary == Join([i \in 1..Len(yaoStates) |->
                                IF yaoStates[i].isMoving THEN FlipBit(yaoStates[i])
                                ELSE Bit(yaoStates[i])])
  IN IF ~hasMoving THEN NoGua("null", <<>>)
     ELSE IF changedBinary \notin GuaKeys THEN NoGua("throw", changedBinary)
     ELSE SpreadGua(changedBinary)

getMutualGua(yaoStates) ==
  LET lowerBinary == <<Bit(yaoStates[2]), Bit(yaoStates[3]), Bit(yaoStates[4])>>
      upperBinary == <<Bit(yaoStates[3]), Bit(yaoStates[4]), Bit(yaoStates[5])>>
  IN SpreadGua(lowerBinary \o upperBinary)

getOppositeGua(yaoStates) ==
  SpreadGua([i \in 1..Len(yaoStates) |-> FlipBit(yaoStates[i])])

getReverseGua(yaoStates) ==
  SpreadGua([i \in 1..Len(yaoStates) |-> Bit(yaoStates[Len(yaoStates) + 1 - i])])

getMovingPositions(yaoStates) ==
  SelectSeq([i \in 1..Len(yaoStates) |-> IF yaoStates[i].isMoving THEN i ELSE 0],
            LAMBDA pos : pos > 0)

getBaGuaBinary(gua) == BA_GUA_DATA[gua].binary

\* the trigram whose table pattern is the given three bits
getBaGuaFromBinary(binary) ==
  IF \E g \in BaGuaSet : BA_GUA_DATA[g].binary = binary
  THEN CHOOSE g \in BaGuaSet : BA_GUA_DATA[g].binary = binary
  ELSE None

getUpperGua(binary) == getBaGuaFromBinary(SubSeq(binary, 4, 6))

getLowerGua(binary) == getBaGuaFromBinary(SubSeq(binary, 1, 3))

\* ---------------------------------------------------------------- state
VARIABLES
  call,       \* the library function applied last, its argument and its return value
  now,        \* the wall clock: the number of ticks since the program started
  seen        \* the castings made so far: input, digest of the result, clock

vars == <<call, now, seen>>

Idle == [fn |-> "idle", args |-> <<>>, ret |-> <<>>]

\* number of lines of a hexagram (the YaoState six-tuple)
LineCount == 6

CoinSums == {6, 7, 8, 9}

\* every six-tuple of line states a casting (coin, time or manual) can produce
YaoStatesSet ==
  {[i \in 1..LineCount |-> coinSumToYaoState(s[i])] : s \in [1..LineCount -> CoinSums]}

Return ==
  /\ call.fn # "idle"
  /\ call' = Idle
  /\ UNCHANGED <<now, seen>>

\* ------------------------------------------- the hexagram resolver, applied
CallGetGuaFromYaoStates ==
  /\ call.fn = "idle"
  /\ UNCHANGED <<now, seen>>
  /\ \E ys \in YaoStatesSet :
       call' = [fn |-> "getGuaFromYaoStates", args |-> ys, ret |-> getGuaFromYaoStates(ys)]

CallGetChangedGua ==
  /\ call.fn = "idle"
  /\ UNCHANGED <<now, seen>>
  /\ \E ys \in YaoStatesSet :
       call' = [fn |-> "getChangedGua", args |-> ys, ret |-> getChangedGua(ys)]

CallGetMutualGua ==
  /\ call.fn = "idle"
  /\ UNCHANGED <<now, seen>>
  /\ \E ys \in YaoStatesSet :
       call' = [fn |-> "getMutualGua", args |-> ys, ret |-> getMutualGua(ys)]

CallGetOppositeGua ==
  /\ call.fn = "idle"
  /\ UNCHANGED <<now, seen>>
  /\ \E ys \in YaoStatesSet :
       call' = [fn |-> "getOppositeGua", args |-> ys, ret |-> getOppositeGua(ys)]

CallGetReverseGua ==
  /\ call.fn = "idle"
  /\ UNCHANGED <<now, seen>>
  /\ \E ys \in YaoStatesSet :
       call' = [fn |-> "getReverseGua", args |-> ys, ret |-> getReverseGua(ys)]

InitGua ==
  /\ call = Idle
  /\ now = 0
  /\ seen = {}

NextGua ==
  \/ CallGetGuaFromYaoStates
  \/ CallGetChangedGua
  \/ CallGetMutualGua
  \/ CallGetOppositeGua
  \/ CallGetReverseGua
  \/ Return

SpecGua == InitGua /\ [][NextGua]_vars


\* ------------------------------------------------------ ganzhi.ts
\* the % of the source language: the result takes the sign of the dividend
JsMod(a, b) == IF a >= 0 THEN a % b ELSE 0 - ((0 - a) % b)

IsLeapYear(y) == (y % 4 = 0 /\ y % 100 # 0) \/ y % 400 = 0

DaysInMonth(y, m) ==
  IF m = 2 THEN (IF IsLeapYear(y) THEN 29 ELSE 28)
  ELSE IF m \in {4, 6, 9, 11} THEN 30 ELSE 31

\* Date.UTC(year, month, day) in whole days (a day number of the civil calendar)
DayNumber(y, m, d) ==
  LET a  == (14 - m) \div 12
      yy == y + 4800 - a
      mm == m + 12 * a - 3
  IN d + ((153 * mm + 2) \div 5) + 365 * yy + (yy \div 4) - (yy \div 100) + (yy \div 400) - 32045

\* a Date: its local calendar fields
MkDate(y, m, d, h) == [year |-> y, month |-> m, day |-> d, hour |-> h]

\* new Date(date.getTime() + 24 * 60 * 60 * 1000)
PlusOneDay(date) ==
  IF date.day < DaysInMonth(date.year, date.month)
  THEN [date EXCEPT !.day = date.day + 1]
  ELSE IF date.month < 12
  THEN [date EXCEPT !.day = 1, !.month = date.month + 1]
  ELSE [date EXCEPT !.day = 1, !.month = 1, !.year = date.year + 1]

\* Date.prototype.getTime(), counted in whole hours since the epoch (every
\* date drawn is on the hour; one hour is 3 600 000 ms)
getTime(date) ==
  (DayNumber(date.year, date.month, date.day) - DayNumber(1970, 1, 1)) * 24 + date.hour

\* new Date(NaN): every getter returns NaN
InvalidDate == MkDate(0, 0, 0, 0)

\* new Date(time): the calendar fields of an epoch time
DateOfTime(time) ==
  LET J == (time \div 24) + DayNumber(1970, 1, 1)
      f == J + 1401 + ((((4 * J + 274277) \div 146097) * 3) \div 4) - 38
      e == 4 * f + 3
      g == (e % 1461) \div 4
      h == 5 * g + 2
      D == ((h % 153) \div 5) + 1
      M == (((h \div 153) + 2) % 12) + 1
      Y == (e \div 1461) - 4716 + ((12 + 2 - M) \div 12)
  IN MkDate(Y, M, D, time % 24)

\* BASE_DATE = new Date(2000, 0, 7), a jia-ZI day
BASE_DATE == MkDate(2000, 1, 7, 0)

BASE_DAY_GAN_INDEX == 0

BASE_DAY_ZHI_INDEX == 0

\* LI_CHUN_DATES: the day of February on which spring begins, 2000..2050
LI_CHUN_DATES ==
  [y \in 2000..2050 |->
     IF y \in {2017, 2021, 2025, 2029, 2033, 2041, 2045, 2049} THEN <<2, 3>> ELSE <<2, 4>>]

\* JIE_QI_APPROX: [month, day] of the twelve month-opening solar terms, from LiChun
JIE_QI_APPROX ==
  <<<<2, 4>>, <<3, 6>>, <<4, 5>>, <<5, 6>>, <<6, 6>>, <<7, 7>>,
    <<8, 8>>, <<9, 8>>, <<10, 8>>, <<11, 7>>, <<12, 7>>, <<1, 6>>>>

daysBetween(date1, date2) ==
  DayNumber(date2.year, date2.month, date2.day) - DayNumber(date1.year, date1.month, date1.day)

getDayGanZhi(date) ==
  LET days == daysBetween(BASE_DATE, date)
      ganIndex == JsMod(JsMod(BASE_DAY_GAN_INDEX + days, 10) + 10, 10)
      zhiIndex == JsMod(JsMod(BASE_DAY_ZHI_INDEX + days, 12) + 12, 12)
  IN [gan |-> At(TIAN_GAN, ganIndex), zhi |-> At(DI_ZHI, zhiIndex)]

\* date < new Date(year, m - 1, d): the date lies before midnight of that day
BeforeDay(date, m, d) == date.month < m \/ (date.month = m /\ date.day < d)

getYearGanZhi(date) ==
  LET liChun == IF date.year \in DOMAIN LI_CHUN_DATES THEN LI_CHUN_DATES[date.year] ELSE <<2, 4>>
      year == IF BeforeDay(date, liChun[1], liChun[2]) THEN date.year - 1 ELSE date.year
      ganIndex == JsMod(JsMod(year - 4, 10) + 10, 10)
      zhiIndex == JsMod(JsMod(year - 4, 12) + 12, 12)
  IN [gan |-> At(TIAN_GAN, ganIndex), zhi |-> At(DI_ZHI, zhiIndex)]

\* the loop runs i from 11 down to 0 and returns at the first term the date is past
getMonthZhiIndex(month, day) ==
  LET past(i) == month > JIE_QI_APPROX[i + 1][1]
                 \/ (month = JIE_QI_APPROX[i + 1][1] /\ day >= JIE_QI_APPROX[i + 1][2])
      hits == {i \in 0..(Len(JIE_QI_APPROX) - 1) : past(i)}
  IN IF hits # {}
     THEN ((CHOOSE i \in hits : \A j \in hits : j <= i) + 2) % 12
     ELSE 1

getMonthGanZhi(date) ==
  LET monthZhiIndex == getMonthZhiIndex(date.month, date.day)
      yearGanIndex == getTianGanIndex(getYearGanZhi(date).gan)
      yearGanGroup == JsMod(yearGanIndex, 5)
      firstMonthGanIndex == JsMod(yearGanGroup * 2 + 2, 10)
      monthOffset == JsMod(monthZhiIndex - 2 + 12, 12)
      monthGanIndex == JsMod(firstMonthGanIndex + monthOffset, 10)
  IN [gan |-> At(TIAN_GAN, monthGanIndex), zhi |-> At(DI_ZHI, monthZhiIndex)]

getHourGanZhi(date) ==
  LET hour == date.hour
      hourZhiIndex == IF hour >= 23 \/ hour < 1 THEN 0 ELSE (hour + 1) \div 2
      dayDate == IF hour >= 23 THEN PlusOneDay(date) ELSE date
      dayGanIndex == getTianGanIndex(getDayGanZhi(dayDate).gan)
      dayGanGroup == JsMod(dayGanIndex, 5)
      ziHourGanIndex == JsMod(dayGanGroup * 2, 10)
      hourGanIndex == JsMod(ziHourGanIndex + hourZhiIndex, 10)
  IN [gan |-> At(TIAN_GAN, hourGanIndex), zhi |-> At(DI_ZHI, hourZhiIndex)]

\* the two branches that open the decade instead of the two left over
getVoidBranches_DecadeStart(dayGan, dayZhi) ==
  LET xunStartZhiIndex == JsMod(JsMod(getDiZhiIndex(dayZhi) - getTianGanIndex(dayGan), 12) + 12, 12)
  IN <<At(DI_ZHI, xunStartZhiIndex), At(DI_ZHI, JsMod(xunStartZhiIndex + 1, 12))>>

getVoidBranches(dayGan, dayZhi) ==
  LET ganIndex == getTianGanIndex(dayGan)
      zhiIndex == getDiZhiIndex(dayZhi)
      xunStartZhiIndex == JsMod(JsMod(zhiIndex - ganIndex, 12) + 12, 12)
      void1Index == JsMod(xunStartZhiIndex + 10, 12)
      void2Index == JsMod(xunStartZhiIndex + 11, 12)
  IN <<At(DI_ZHI, void1Index), At(DI_ZHI, void2Index)>>

getGanZhiTime(date) ==
  LET year == getYearGanZhi(date)
      month == getMonthGanZhi(date)
      day == getDayGanZhi(date)
      hour == getHourGanZhi(date)
  IN [year |-> year, month |-> month, day |-> day, hour |-> hour,
      voidBranches |-> getVoidBranches(day.gan, day.zhi),
      monthWuXing |-> DI_ZHI_WU_XING[month.zhi],
      dayWuXing |-> DI_ZHI_WU_XING[day.zhi]]

\* voidBranches.includes(zhi)
isVoid(zhi, voidBranches) == \E i \in 1..Len(voidBranches) : voidBranches[i] = zhi

isDayBroken(zhi, dayZhi) ==
  JsMod(getDiZhiIndex(zhi) + 6, 12) = getDiZhiIndex(dayZhi)

isMonthBroken(zhi, monthZhi) ==
  JsMod(getDiZhiIndex(zhi) + 6, 12) = getDiZhiIndex(monthZhi)

\* ------------------------------------------------------ najia.ts
getNaJiaDiZhi(gua, position) == At(NA_JIA_DI_ZHI[gua], position - 1)

getFullNaJiaDiZhi(lowerGua, upperGua) ==
  SubSeq(NA_JIA_DI_ZHI[lowerGua], 1, 3) \o SubSeq(NA_JIA_DI_ZHI[upperGua], 4, 6)

getNaJiaTianGan(gua, isUpper) ==
  IF gua = "Qian" THEN (IF isUpper THEN "ren" ELSE "jia")
  ELSE IF gua = "Kun" THEN (IF isUpper THEN "gui" ELSE "yi")
  ELSE BA_GUA_DATA[gua].naJiaTianGan.yang

calculateLiuQin(palaceWuXing, yaoWuXing) == getLiuQin(palaceWuXing, yaoWuXing)

\* the guaMap of binaryToGua
binaryToGua(binary) ==
  CASE binary = <<1,1,1>> -> "Qian" [] binary = <<0,1,1>> -> "Dui"
    [] binary = <<1,0,1>> -> "Li"   [] binary = <<0,0,1>> -> "Zhen"
    [] binary = <<1,1,0>> -> "Xun"  [] binary = <<0,1,0>> -> "Kan"
    [] binary = <<1,0,0>> -> "Gen"  [] binary = <<0,0,0>> -> "Kun"

determineChangeType(originalDiZhi, changedDiZhi, palaceWuXing) ==
  LET originalIdx == getDiZhiIndex(originalDiZhi)
      changedIdx == getDiZhiIndex(changedDiZhi)
      originalLiuQin == getLiuQin(DI_ZHI_WU_XING[originalDiZhi], DI_ZHI_WU_XING[changedDiZhi])
  IN IF JsMod(changedIdx - originalIdx + 12, 12) = 1 THEN "advance"
     ELSE IF JsMod(originalIdx - changedIdx + 12, 12) = 1 THEN "retreat"
     ELSE IF originalLiuQin = "FuMu" THEN "return_birth"
     ELSE IF originalLiuQin = "GuanGui" THEN "return_clash"
     ELSE "normal"

\* changedYao: undefined, the descriptor a line that is not moving carries
NoChangedYao ==
  [yinYang |-> "undefined", diZhi |-> "undefined", wuXing |-> "undefined",
   liuQin |-> "undefined", changeType |-> "undefined"]

HasChangedYao(yao) == yao.changedYao # NoChangedYao

calculateChangedYao(yaoState, position, guaInfo) ==
  LET changedYinYang == IF yaoState.yinYang = "yang" THEN "yin" ELSE "yang"
      binary == guaInfo.binary
      changedBinary == [idx \in 1..Len(binary) |->
                          IF idx - 1 = position - 1 THEN 1 - binary[idx] ELSE binary[idx]]
      changedLowerGua == binaryToGua(SubSeq(changedBinary, 1, 3))
      changedUpperGua == binaryToGua(SubSeq(changedBinary, 4, 6))
      isUpper == position > 3
      changedGua == IF isUpper THEN changedUpperGua ELSE changedLowerGua
      changedDiZhi == getNaJiaDiZhi(changedGua, position)
      changedWuXing == DI_ZHI_WU_XING[changedDiZhi]
      originalDiZhi == At(getFullNaJiaDiZhi(guaInfo.lowerGua, guaInfo.upperGua), position - 1)
  IN [yinYang |-> changedYinYang,
      diZhi |-> changedDiZhi,
      wuXing |-> changedWuXing,
      liuQin |-> calculateLiuQin(guaInfo.wuXing, changedWuXing),
      changeType |-> determineChangeType(originalDiZhi, changedDiZhi, guaInfo.wuXing)]

\* mutant: every line is given a descriptor
installChangedYao_Always(yaoState, position, guaInfo) ==
  calculateChangedYao(yaoState, position, guaInfo)

\* the changedYao of an installed line: set only when the line is moving
installChangedYao(yaoState, position, guaInfo) ==
  IF yaoState.isMoving THEN calculateChangedYao(yaoState, position, guaInfo) ELSE NoChangedYao

installHexagram(yaoStates, guaInfo) ==
  LET naJiaDiZhi == getFullNaJiaDiZhi(guaInfo.lowerGua, guaInfo.upperGua)
  IN [index \in 1..Len(yaoStates) |->
        LET yaoState == yaoStates[index]
            position == index
            diZhi == naJiaDiZhi[index]
            yaoWuXing == DI_ZHI_WU_XING[diZhi]
            isUpper == position > 3
            currentGua == IF isUpper THEN guaInfo.upperGua ELSE guaInfo.lowerGua
        IN [yinYang |-> yaoState.yinYang, isMoving |-> yaoState.isMoving,
            type |-> yaoState.type, coinResult |-> yaoState.coinResult,
            position |-> position,
            diZhi |-> diZhi,
            tianGan |-> getNaJiaTianGan(currentGua, isUpper),
            wuXing |-> yaoWuXing,
            liuQin |-> calculateLiuQin(guaInfo.wuXing, yaoWuXing),
            liuShen |-> "QingLong",
            isWorld |-> position = guaInfo.worldPosition,
            isResponse |-> position = guaInfo.responsePosition,
            changedYao |-> installChangedYao(yaoState, position, guaInfo),
            isVoid |-> FALSE, isDayBroken |-> FALSE, isMonthBroken |-> FALSE,
            prosperity |-> "undefined"]]

getChangedYaoInfos(originalYaoInfos, changedGuaInfo) ==
  LET naJiaDiZhi == getFullNaJiaDiZhi(changedGuaInfo.lowerGua, changedGuaInfo.upperGua)
  IN [index \in 1..Len(originalYaoInfos) |->
        LET originalYao == originalYaoInfos[index]
            position == index
            diZhi == naJiaDiZhi[index]
            yaoWuXing == DI_ZHI_WU_XING[diZhi]
            isUpper == position > 3
            currentGua == IF isUpper THEN changedGuaInfo.upperGua ELSE changedGuaInfo.lowerGua
        IN [originalYao EXCEPT
              !.yinYang = IF originalYao.isMoving
                          THEN (IF originalYao.yinYang = "yang" THEN "yin" ELSE "yang")
                          ELSE originalYao.yinYang,
              !.position = position,
              !.diZhi = diZhi,
              !.tianGan = getNaJiaTianGan(currentGua, isUpper),
              !.wuXing = yaoWuXing,
              !.liuQin = calculateLiuQin(changedGuaInfo.wuXing, yaoWuXing),
              !.isWorld = position = changedGuaInfo.worldPosition,
              !.isResponse = position = changedGuaInfo.responsePosition,
              !.changedYao = NoChangedYao]]

findYaoByLiuQin(yaoInfos, liuQin) ==
  SelectSeq(yaoInfos, LAMBDA yao : yao.liuQin = liuQin)

\* stands for the Error thrown when no line is found: position 0, no line
ThrownYao(msg) == [position |-> 0, liuQin |-> "throw", error |-> msg]

getWorldYao(yaoInfos) ==
  IF \E i \in 1..Len(yaoInfos) : yaoInfos[i].isWorld
  THEN yaoInfos[CHOOSE i \in 1..Len(yaoInfos) :
                  yaoInfos[i].isWorld /\ \A j \in 1..(i - 1) : ~yaoInfos[j].isWorld]
  ELSE ThrownYao("no world line")

getResponseYao(yaoInfos) ==
  IF \E i \in 1..Len(yaoInfos) : yaoInfos[i].isResponse
  THEN yaoInfos[CHOOSE i \in 1..Len(yaoInfos) :
                  yaoInfos[i].isResponse /\ \A j \in 1..(i - 1) : ~yaoInfos[j].isResponse]
  ELSE ThrownYao("no response line")

\* ------------------------------------------------------ liushen.ts
getStartLiuShen(dayGan) == LIU_SHEN_START[dayGan]

\* mutant: the order always begins at its first entry
getLiuShenArray_FromFirst(dayGan) ==
  [k \in 1..6 |-> At(LIU_SHEN_ORDER, JsMod(k - 1, 6))]

getLiuShenArray(dayGan) ==
  LET startIndex == IndexOf(LIU_SHEN_ORDER, getStartLiuShen(dayGan))
  IN [k \in 1..6 |-> At(LIU_SHEN_ORDER, JsMod(startIndex + (k - 1), 6))]

installLiuShen(yaoInfos, dayGan) ==
  LET liuShenArray == getLiuShenArray(dayGan)
  IN [index \in 1..Len(yaoInfos) |-> [yaoInfos[index] EXCEPT !.liuShen = liuShenArray[index]]]

\* ------------------------------------------------------ prosperity.ts
getMonthProsperityScore(prosperity) ==
  CASE prosperity = "wang" -> 5
    [] prosperity = "xiang" -> 3
    [] prosperity = "xiu" -> 0
    [] prosperity = "qiu" -> -2
    [] prosperity = "si" -> -4
    [] OTHER -> 0

getDayStatus(yaoWuXing, dayWuXing) ==
  IF WU_XING_SHENG[dayWuXing] = yaoWuXing \/ dayWuXing = yaoWuXing THEN "support"
  ELSE IF WU_XING_KE[dayWuXing] = yaoWuXing THEN "restrain"
  ELSE "neutral"

getDayStatusScore(status) ==
  CASE status = "support" -> 2
    [] status = "restrain" -> -2
    [] status = "neutral" -> 0

getTwelveStage(wuXing, diZhi) ==
  LET startIdx == getDiZhiIndex(WU_XING_CHANG_SHENG_START[wuXing].yang)
      currentIdx == getDiZhiIndex(diZhi)
  IN At(TWELVE_STAGES, JsMod(currentIdx - startIdx + 12, 12))

getTwelveStageScore(stage) ==
  CASE stage = "ChangSheng" -> 3 [] stage = "MuYu" -> 1 [] stage = "GuanDai" -> 2
    [] stage = "LinGuan" -> 3 [] stage = "DiWang" -> 4 [] stage = "Shuai" -> -1
    [] stage = "Bing" -> -2 [] stage = "Si" -> -3 [] stage = "Mu" -> -2
    [] stage = "Jue" -> -4 [] stage = "Tai" -> 0 [] stage = "Yang" -> 1

Max(a, b) == IF a >= b THEN a ELSE b

Min(a, b) == IF a <= b THEN a ELSE b

\* analyzeProsperity; the score is kept doubled (score2 = 2 * score) because
\* the stage score enters with weight 0.5
analyzeProsperity(yaoInfo, ganZhiTime) ==
  LET monthProsperity == getProsperityByMonth(yaoInfo.wuXing, ganZhiTime.monthWuXing)
      dayStatus == getDayStatus(yaoInfo.wuXing, ganZhiTime.dayWuXing)
      monthStage == getTwelveStage(yaoInfo.wuXing, ganZhiTime.month.zhi)
      dayStage == getTwelveStage(yaoInfo.wuXing, ganZhiTime.day.zhi)
      s1 == 2 * getMonthProsperityScore(monthProsperity) + 2 * getDayStatusScore(dayStatus)
      s2 == IF isVoid(yaoInfo.diZhi, ganZhiTime.voidBranches) THEN s1 - 2 * 3 ELSE s1
      s3 == IF isDayBroken(yaoInfo.diZhi, ganZhiTime.day.zhi) THEN s2 - 2 * 4 ELSE s2
      s4 == IF isMonthBroken(yaoInfo.diZhi, ganZhiTime.month.zhi) THEN s3 - 2 * 5 ELSE s3
      s5 == s4 + getTwelveStageScore(monthStage)
      reasons == <<"YueLingWangShuai", "RiChenZuoYong">>
                 \o (IF s2 # s1 THEN <<"XunKong">> ELSE <<>>)
                 \o (IF s3 # s2 THEN <<"RiPo">> ELSE <<>>)
                 \o (IF s4 # s3 THEN <<"YuePo">> ELSE <<>>)
                 \o (IF getTwelveStageScore(monthStage) # 0 THEN <<"ShiErChangShengYue">> ELSE <<>>)
  IN [monthProsperity |-> monthProsperity,
      dayStatus |-> dayStatus,
      monthStage |-> monthStage,
      dayStage |-> dayStage,
      score2 |-> Max(-20, Min(20, s5)),
      reasons |-> reasons]

analyzeAllProsperity(yaoInfos, ganZhiTime) ==
  [index \in 1..Len(yaoInfos) |->
     LET yao == yaoInfos[index]
     IN [yao EXCEPT
           !.prosperity = analyzeProsperity(yao, ganZhiTime).monthProsperity,
           !.isVoid = isVoid(yao.diZhi, ganZhiTime.voidBranches),
           !.isDayBroken = isDayBroken(yao.diZhi, ganZhiTime.day.zhi),
           !.isMonthBroken = isMonthBroken(yao.diZhi, ganZhiTime.month.zhi)]]

\* ------------------------------------------------------ relations.ts
checkSixClash(zhi1, zhi2) == DI_ZHI_CHONG[zhi1] = zhi2

checkSixHarmony(zhi1, zhi2) == DI_ZHI_HE[zhi1] = zhi2

checkSixHarm(zhi1, zhi2) == DI_ZHI_HAI[zhi1] = zhi2

checkThreePenalty(zhi1, zhi2) == zhi2 \in DI_ZHI_XING[zhi1]

\* the loop over the entries returns at the first entry that is matched
\* completely (three branches given) or by at least two of the branches given
checkThreeHarmony(zhis) ==
  LET inputSet == {zhis[i] : i \in 1..Len(zhis)}
      isMatch(e) == Len(zhis) = 3 /\ inputSet \subseteq DI_ZHI_SAN_HE[e].zhis
                    /\ Cardinality(DI_ZHI_SAN_HE[e].zhis) = Cardinality(inputSet)
      matchCount(e) == Cardinality({i \in 1..Len(zhis) : zhis[i] \in DI_ZHI_SAN_HE[e].zhis})
      returns == {e \in 1..Len(DI_ZHI_SAN_HE) : isMatch(e) \/ matchCount(e) >= 2}
      first == CHOOSE e \in returns : \A f \in returns : e <= f
  IN IF returns = {} THEN [isComplete |-> FALSE, wuXing |-> "undefined"]
     ELSE [isComplete |-> isMatch(first), wuXing |-> DI_ZHI_SAN_HE[first].wuXing]

RECURSIVE ConcatAll(_)
\* [].concat(...seqs): the pushes of a loop, in order
ConcatAll(seqs) ==
  IF seqs = <<>> THEN <<>> ELSE Head(seqs) \o ConcatAll(Tail(seqs))

\* one RelationAnalysis; the parties are kept as (position, branch) of the line
\* and the kind and branch of what it meets
Relation(type, impact, yao, otherKind, otherPosition, otherZhi) ==
  [type |-> type, impact |-> impact,
   position |-> yao.position, diZhi |-> yao.diZhi,
   otherKind |-> otherKind, otherPosition |-> otherPosition, otherZhi |-> otherZhi]

When(cond, rel) == IF cond THEN <<rel>> ELSE <<>>

analyzeRelations(yaoInfos, ganZhiTime) ==
  LET monthZhi == ganZhiTime.month.zhi
      dayZhi == ganZhiTime.day.zhi
      n == Len(yaoInfos)
      pair(yao1, yao2) ==
           When(checkSixClash(yao1.diZhi, yao2.diZhi),
                Relation("six_clash", "negative", yao1, "yao", yao2.position, yao2.diZhi))
        \o When(checkSixHarmony(yao1.diZhi, yao2.diZhi),
                Relation("six_harmony", "positive", yao1, "yao", yao2.position, yao2.diZhi))
        \o When(checkSixHarm(yao1.diZhi, yao2.diZhi),
                Relation("six_harm", "negative", yao1, "yao", yao2.position, yao2.diZhi))
        \o When(checkThreePenalty(yao1.diZhi, yao2.diZhi),
                Relation("three_penalty", "negative", yao1, "yao", yao2.position, yao2.diZhi))
      pairs == ConcatAll([i \in 1..n |->
                 ConcatAll([k \in 1..(n - i) |-> pair(yaoInfos[i], yaoInfos[i + k])])])
      withDay(yao) ==
           When(checkSixClash(yao.diZhi, dayZhi)
                  /\ yao.prosperity \in {"wang", "xiang"} /\ ~yao.isMoving,
                Relation("six_clash", "neutral", yao, "day", 0, dayZhi))
        \o When(checkSixHarmony(yao.diZhi, dayZhi),
                Relation("six_harmony", "positive", yao, "day", 0, dayZhi))
      withMonth(yao) ==
           When(checkSixClash(yao.diZhi, monthZhi),
                Relation("six_clash", "negative", yao, "month", 0, monthZhi))
        \o When(checkSixHarmony(yao.diZhi, monthZhi),
                Relation("six_harmony", "positive", yao, "month", 0, monthZhi))
      withChanged(yao) ==
        IF yao.isMoving /\ HasChangedYao(yao)
        THEN    When(checkSixClash(yao.diZhi, yao.changedYao.diZhi),
                     Relation("six_clash", "negative", yao, "changed", yao.position, yao.changedYao.diZhi))
             \o When(checkSixHarmony(yao.diZhi, yao.changedYao.diZhi),
                     Relation("six_harmony", "neutral", yao, "changed", yao.position, yao.changedYao.diZhi))
        ELSE <<>>
      threeHarmonyResult == checkThreeHarmony([i \in 1..n |-> yaoInfos[i].diZhi])
  IN pairs
     \o ConcatAll([i \in 1..n |-> withDay(yaoInfos[i])])
     \o ConcatAll([i \in 1..n |-> withMonth(yaoInfos[i])])
     \o ConcatAll([i \in 1..n |-> withChanged(yaoInfos[i])])
     \o When(threeHarmonyResult.isComplete /\ threeHarmonyResult.wuXing # "undefined",
             [type |-> "three_harmony", impact |-> "positive", position |-> 0,
              diZhi |-> "all", otherKind |-> "all", otherPosition |-> 0,
              otherZhi |-> threeHarmonyResult.wuXing])

\* ------------------------------------------------------ yongshen.ts
QuestionCategories ==
  {"career", "love", "wealth", "health", "study", "lawsuit", "travel", "lost", "other"}

\* the subType of each entry of QUESTION_SUBTYPES
QUESTION_SUBTYPES ==
  [career  |-> <<"career_job", "career_business", "career_promotion", "career_interview">>,
   love    |-> <<"love_male", "love_female", "love_samesex", "love_relationship">>,
   wealth  |-> <<"wealth_general", "wealth_investment", "wealth_business">>,
   health  |-> <<"health_self", "health_other">>,
   study   |-> <<"study_exam", "study_learning">>,
   lawsuit |-> <<"lawsuit_plaintiff", "lawsuit_defendant">>,
   travel  |-> <<"travel_self", "travel_safety">>,
   lost    |-> <<"lost_item", "lost_person">>,
   other   |-> <<"other_general">>]

\* YONG_SHEN_RULES: primary and secondary target; the targets that are not
\* roles are ShiYao (the world line), YingYao (the response line) and YongShen
YONG_SHEN_RULES ==
  [career_job        |-> [primary |-> "GuanGui", secondary |-> "undefined"],
   career_business   |-> [primary |-> "QiCai",   secondary |-> "undefined"],
   career_promotion  |-> [primary |-> "GuanGui", secondary |-> "undefined"],
   career_interview  |-> [primary |-> "GuanGui", secondary |-> "undefined"],
   love_male         |-> [primary |-> "QiCai",   secondary |-> "undefined"],
   love_female       |-> [primary |-> "GuanGui", secondary |-> "undefined"],
   love_relationship |-> [primary |-> "YingYao", secondary |-> "ShiYao"],
   wealth_general    |-> [primary |-> "QiCai",   secondary |-> "undefined"],
   wealth_investment |-> [primary |-> "QiCai",   secondary |-> "undefined"],
   wealth_business   |-> [primary |-> "QiCai",   secondary |-> "undefined"],
   health_self       |-> [primary |-> "ShiYao",  secondary |-> "GuanGui"],
   health_other      |-> [primary |-> "YongShen", secondary |-> "GuanGui"],
   study_exam        |-> [primary |-> "FuMu",    secondary |-> "GuanGui"],
   study_learning    |-> [primary |-> "FuMu",    secondary |-> "undefined"],
   lawsuit_plaintiff |-> [primary |-> "ShiYao",  secondary |-> "GuanGui"],
   lawsuit_defendant |-> [primary |-> "ShiYao",  secondary |-> "ZiSun"],
   travel_self       |-> [primary |-> "ShiYao",  secondary |-> "undefined"],
   travel_safety     |-> [primary |-> "ShiYao",  secondary |-> "GuanGui"],
   lost_item         |-> [primary |-> "QiCai",   secondary |-> "undefined"],
   lost_person       |-> [primary |-> "YongShen", secondary |-> "undefined"],
   other_general     |-> [primary |-> "ShiYao",  secondary |-> "undefined"]]

\* a YongShenInfo; reason is "rule" for the rule's description, "hidden" for the
\* description with the not-in-the-hexagram remark, "world" for the world-line text
YongShenInfo(liuQin, positions, reason, alternatives) ==
  [liuQin |-> liuQin, positions |-> positions, reason |-> reason,
   isAutoSelected |-> TRUE, alternatives |-> alternatives]

createWorldYongShen(yaoInfos) ==
  LET worldYao == getWorldYao(yaoInfos)
  IN YongShenInfo(worldYao.liuQin, <<worldYao.position>>, "world", <<>>)

\* mutant: the officer role whatever the rule says
RulePrimary_Officer(questionSubType) == "GuanGui"

\* rule.primary of the rule registered for the subtype
RulePrimary(questionSubType) == YONG_SHEN_RULES[questionSubType].primary

selectYongShen(yaoInfos, questionSubType, gender) ==
  IF questionSubType \notin DOMAIN YONG_SHEN_RULES THEN createWorldYongShen(yaoInfos)
  ELSE
    LET rule == YONG_SHEN_RULES[questionSubType]
        primaryTarget == RulePrimary(questionSubType)
        responseYao == getResponseYao(yaoInfos)
        secondaryLiuQin == IF rule.secondary \notin {"undefined", "ShiYao", "YingYao", "YongShen"}
                           THEN <<rule.secondary>> ELSE <<>>
        yongShenYaos == findYaoByLiuQin(yaoInfos, primaryTarget)
    IN IF primaryTarget = "ShiYao" THEN createWorldYongShen(yaoInfos)
       ELSE IF primaryTarget = "YingYao"
       THEN YongShenInfo(responseYao.liuQin, <<responseYao.position>>, "rule", <<>>)
       ELSE IF primaryTarget = "YongShen" THEN createWorldYongShen(yaoInfos)
       ELSE IF Len(yongShenYaos) = 0
       THEN YongShenInfo(primaryTarget, <<>>, "hidden", secondaryLiuQin)
       ELSE YongShenInfo(primaryTarget,
                         [k \in 1..Len(yongShenYaos) |-> yongShenYaos[k].position],
                         "rule", secondaryLiuQin)

\* ------------------------------------------- interpretation (liushen.ts:129-)
\* an InterpretationItem: its type, the ruleName of each reasoning step, the
\* confidence and relatedYao (<<>> also when the item has no relatedYao)
Item(type, steps, confidence, relatedYao) ==
  [type |-> type, steps |-> steps, confidence |-> confidence, relatedYao |-> relatedYao]

NoItem == Item("null", <<>>, "null", <<>>)

PositionsOf(yaos) == [k \in 1..Len(yaos) |-> yaos[k].position]

Includes(seq, x) == \E k \in 1..Len(seq) : seq[k] = x

\* yaoInfos.find(y => yongShen.positions.includes(y.position)), as a list of 0 or 1
findYongShenYao(yaoInfos, yongShen) ==
  LET found == SelectSeq(yaoInfos, LAMBDA y : Includes(yongShen.positions, y.position))
  IN IF Len(found) = 0 THEN <<>> ELSE <<found[1]>>

analyzeYongShenStatus(yaoInfos, yongShen, ganZhiTime) ==
  IF Len(yongShen.positions) = 0
  THEN [item |-> Item("obstacle", <<"YongShenBuXian">>, "low", <<>>),
        uncertainty |-> <<"YongShenBuXian">>]
  ELSE
    LET yongShenYao == findYongShenYao(yaoInfos, yongShen)[1]
        prosperity == analyzeProsperity(yongShenYao, ganZhiTime)
        isStrong == prosperity.monthProsperity \in {"wang", "xiang"}
        isBroken == yongShenYao.isDayBroken \/ yongShenYao.isMonthBroken
    IN [item |-> Item(IF isStrong /\ ~yongShenYao.isVoid /\ ~isBroken THEN "support" ELSE "obstacle",
                      prosperity.reasons,
                      IF yongShenYao.isVoid THEN "medium" ELSE "high",
                      <<yongShenYao.position>>),
        uncertainty |-> IF yongShenYao.isVoid THEN <<"YongShenLinKongWang">> ELSE <<>>]

analyzeWorldResponse(yaoInfos, ganZhiTime, questionCategory) ==
  LET worldYao == getWorldYao(yaoInfos)
      responseYao == getResponseYao(yaoInfos)
      worldStrong == analyzeProsperity(worldYao, ganZhiTime).score2 > 0
  IN Item(IF worldStrong THEN "support" ELSE "obstacle", <<"ShiYingFenXi">>, "high",
          <<worldYao.position, responseYao.position>>)

\* mutant: three moving lines are already too many
TooManyMoving_Three(movingCount) == movingCount >= 3

\* the test of analyzeMovingYao for the chaotic case: movingYaos.length >= 4
TooManyMoving(movingCount) == movingCount >= 4

analyzeMovingYao(yaoInfos, changedYaoInfos, yongShen) ==
  LET movingYaos == SelectSeq(yaoInfos, LAMBDA y : y.isMoving)
  IN IF Len(movingYaos) = 0 THEN [item |-> NoItem, uncertainty |-> <<>>]
     ELSE IF TooManyMoving(Len(movingYaos))
     THEN [item |-> Item("risk", <<"DuoYaoQiDong">>, "low", PositionsOf(movingYaos)),
           uncertainty |-> <<"DongYaoGuoDuo">>]
     ELSE [item |-> Item("trend", [k \in 1..Len(movingYaos) |-> "DongYaoFenXi"], "medium",
                         PositionsOf(movingYaos)),
           uncertainty |-> <<>>]

getRelationTypeName(type) ==
  CASE type = "six_clash" -> "LiuChong"
    [] type = "six_harmony" -> "LiuHe"
    [] type = "three_harmony" -> "SanHe"
    [] type = "three_penalty" -> "SanXing"
    [] type = "six_harm" -> "LiuHai"
    [] type = "destruction" -> "Po"
    [] OTHER -> type

analyzeRelationsImpact(relations, yongShen, yaoInfos) ==
  LET importantRelations ==
        SelectSeq(relations,
                  LAMBDA r : r.type \in {"six_clash", "six_harmony", "three_penalty", "six_harm"})
      shown == SubSeq(importantRelations, 1, Min(3, Len(importantRelations)))
  IN [k \in 1..Len(shown) |->
        Item(IF shown[k].impact = "positive" THEN "support"
             ELSE IF shown[k].impact = "negative" THEN "obstacle" ELSE "trend",
             <<getRelationTypeName(shown[k].type)>>, "medium", <<>>)]

\* mutant: a focus element that is not located is reported as void
analyzeVoidAndBroken_Hidden(yaoInfos, yongShen, ganZhiTime) ==
  IF findYongShenYao(yaoInfos, yongShen) = <<>>
  THEN <<Item("obstacle", <<"YongShenKongWang">>, "medium", <<>>)>>
  ELSE <<>>

\* the item, as a list of 0 or 1 (null when there is nothing to report)
analyzeVoidAndBroken(yaoInfos, yongShen, ganZhiTime) ==
  LET found == findYongShenYao(yaoInfos, yongShen)
  IN IF found = <<>> THEN <<>>
     ELSE IF found[1].isVoid
     THEN <<Item("obstacle", <<"YongShenKongWang">>, "medium", <<found[1].position>>)>>
     ELSE IF found[1].isDayBroken \/ found[1].isMonthBroken
     THEN <<Item("obstacle", <<IF found[1].isMonthBroken THEN "YuePo" ELSE "RiPo">>, "high",
                 <<found[1].position>>)>>
     ELSE <<>>

\* a TimingPrediction: the rule, the branch waited for, the day the search for
\* the nearest dates starts from (today = new Date()) and the confidence
predictTiming(yaoInfos, yongShen, ganZhiTime, changedYaoInfos, today) ==
  LET found == findYongShenYao(yaoInfos, yongShen)
  IN IF found = <<>> THEN <<>>
     ELSE
       LET yongShenYao == found[1]
       IN (IF yongShenYao.isVoid
           THEN <<[ruleName |-> "KongWangYingQi", zhi |-> yongShenYao.diZhi,
                   clashZhi |-> DI_ZHI_CHONG[yongShenYao.diZhi], today |-> today,
                   confidence |-> "medium"]>>
           ELSE <<>>)
          \o (IF ~yongShenYao.isVoid /\ ~yongShenYao.isDayBroken
              THEN <<[ruleName |-> "DiZhiYingQi", zhi |-> yongShenYao.diZhi,
                      clashZhi |-> "undefined", today |-> today, confidence |-> "medium"]>>
              ELSE <<>>)
          \o (IF yongShenYao.isMoving /\ HasChangedYao(yongShenYao)
              THEN <<[ruleName |-> "BianYaoYingQi", zhi |-> yongShenYao.changedYao.diZhi,
                      clashZhi |-> "undefined", today |-> today, confidence |-> "low"]>>
              ELSE <<>>)

RECURSIVE TallyItems(_, _, _)
\* the for loop of judgeTrend: support and obstacle counts after the items
TallyItems(items, supportCount, obstacleCount) ==
  IF items = <<>> THEN <<supportCount, obstacleCount>>
  ELSE LET type == Head(items).type
       IN TallyItems(Tail(items),
                     IF type = "support" THEN supportCount + 1 ELSE supportCount,
                     IF type = "obstacle" THEN obstacleCount + 1
                     ELSE IF type = "risk" THEN obstacleCount + 2 ELSE obstacleCount)

\* mutant: one uncertainty note is enough
UncertainAt_One(uncertaintyCount) == uncertaintyCount >= 1

\* the first test of judgeTrend: uncertaintyCount >= 2
UncertainAt(uncertaintyCount) == uncertaintyCount >= 2

judgeTrend(items, yongShenAnalysis, uncertaintyCount) ==
  IF UncertainAt(uncertaintyCount) THEN "uncertain"
  ELSE
    LET tally == TallyItems(items, 0, 0)
        supportCount == IF yongShenAnalysis.item.type = "support" THEN tally[1] + 2 ELSE tally[1]
        obstacleCount == IF yongShenAnalysis.item.type = "support" THEN tally[2]
                         ELSE IF yongShenAnalysis.item.type = "obstacle" THEN tally[2] + 2
                         ELSE tally[2]
        diff == supportCount - obstacleCount
    IN IF diff >= 4 THEN "very_favorable"
       ELSE IF diff >= 2 THEN "favorable"
       ELSE IF diff <= -4 THEN "very_unfavorable"
       ELSE IF diff <= -2 THEN "unfavorable"
       ELSE "neutral"

\* today is the value new Date() has when predictTiming runs
generateInterpretation(primaryYaoInfos, changedYaoInfos, primaryGua, changedGua, ganZhiTime, yongShen, relations, questionCategory, today) ==
  LET yongShenAnalysis == analyzeYongShenStatus(primaryYaoInfos, yongShen, ganZhiTime)
      worldResponseAnalysis == analyzeWorldResponse(primaryYaoInfos, ganZhiTime, questionCategory)
      movingYaoAnalysis == analyzeMovingYao(primaryYaoInfos, changedYaoInfos, yongShen)
      items == <<yongShenAnalysis.item, worldResponseAnalysis>>
               \o (IF movingYaoAnalysis.item # NoItem THEN <<movingYaoAnalysis.item>> ELSE <<>>)
               \o analyzeRelationsImpact(relations, yongShen, primaryYaoInfos)
               \o analyzeVoidAndBroken(primaryYaoInfos, yongShen, ganZhiTime)
      uncertainties == yongShenAnalysis.uncertainty \o movingYaoAnalysis.uncertainty
  IN [trend |-> judgeTrend(items, yongShenAnalysis, Len(uncertainties)),
      items |-> items,
      timingPredictions |-> predictTiming(primaryYaoInfos, yongShen, ganZhiTime,
                                          changedYaoInfos, today),
      uncertainties |-> uncertainties]

\* ------------------------------------------------------ engine.ts
getQuestionSubType(category, userSubType, gender) ==
  IF category = "love"
  THEN IF userSubType = "same_sex" \/ gender = "same_sex" THEN "love_samesex"
       ELSE IF userSubType = "female" \/ gender = "female" THEN "love_female"
       ELSE "love_male"
  ELSE IF category = "career"
  THEN (IF userSubType = "business" THEN "career_business" ELSE "career_job")
  ELSE IF category = "health"
  THEN (IF userSubType = "other" THEN "health_other" ELSE "health_self")
  ELSE IF category = "lost"
  THEN (IF userSubType = "person" THEN "lost_person" ELSE "lost_item")
  ELSE IF category \in DOMAIN QUESTION_SUBTYPES /\ Len(QUESTION_SUBTYPES[category]) > 0
  THEN QUESTION_SUBTYPES[category][1]
  ELSE "other_general"

\* a CastingInput: the fields castHexagram reads
CastingInput(yaoStates, time, questionCategory, subType, gender) ==
  [yaoStates |-> yaoStates, time |-> time, questionCategory |-> questionCategory,
   subType |-> subType, gender |-> gender]

\* mutant: the pillars are taken from the wall clock
PillarTime_WallClock(input, clock) == clock

\* the instant the pillars are computed from: input.time.gregorian
PillarTime(input, clock) == input.time

\* step 6 of castHexagram: the changed hexagram and its lines; changedGua is
\* undefined and changedYaoInfos is <<>> (undefined) when no line is moving
castChanged(yaoStates, primaryYaoInfos, ganZhiTime) ==
  LET movingPositions == getMovingPositions(yaoStates)
      changed == IF Len(movingPositions) > 0 THEN getChangedGua(yaoStates)
                 ELSE NoGua("undefined", <<>>)
      changedGua == IF changed.name = "null" THEN NoGua("undefined", <<>>) ELSE changed
  IN [movingPositions |-> movingPositions,
      changedGua |-> changedGua,
      changedYaoInfos |-> IF IsGua(changedGua)
                          THEN analyzeAllProsperity(
                                 getChangedYaoInfos(primaryYaoInfos, changedGua), ganZhiTime)
                          ELSE <<>>]

\* a ReasonItem of the reasoning chain: the rule name and the conclusion text,
\* kept as the pieces the template string is put together from
ReasonItem(ruleName, conclusion) == [ruleName |-> ruleName, conclusion |-> conclusion]

\* `${n}` of a number
NumberText(n) == ToString(n)

\* the steps castHexagram pushes, in the order of its code
TimeStep(ganZhiTime) ==
  ReasonItem("ShiJianZhuanHuan",
             <<ganZhiTime.year.gan, ganZhiTime.year.zhi, "Nian",
               ganZhiTime.month.gan, ganZhiTime.month.zhi, "Yue",
               ganZhiTime.day.gan, ganZhiTime.day.zhi, "Ri",
               ganZhiTime.hour.gan, ganZhiTime.hour.zhi, "Shi">>)

PrimaryStep(primaryGua) ==
  ReasonItem("BenGuaQueDing",
             <<"BenGua", primaryGua.name, primaryGua.lowerGua, "Xia", primaryGua.upperGua, "Shang">>)

InstallStep(primaryGua) ==
  ReasonItem("NaJiaZhuangGua",
             <<"GuaGong", primaryGua.palace, primaryGua.wuXing,
               "ShiYao", NumberText(primaryGua.worldPosition),
               "YingYao", NumberText(primaryGua.responsePosition)>>)

LiuShenStep(ganZhiTime, primaryYaoInfos) ==
  ReasonItem("AnLiuShen", <<ganZhiTime.day.gan, "RiQi", primaryYaoInfos[1].liuShen>>)

ProsperityStep(ganZhiTime) ==
  ReasonItem("WangShuaiFenXi",
             <<"YueLing", ganZhiTime.month.zhi, ganZhiTime.monthWuXing, "XunKong">>
             \o ganZhiTime.voidBranches)

\* mutant: the changed-hexagram step is pushed whether or not a line is moving
ChangedStep_Always(step6) ==
  <<ReasonItem("BianGuaQueDing", <<"BianGua", step6.changedGua.name>>)>>

\* pushed only when a changed hexagram was found
ChangedStep(step6) ==
  IF IsGua(step6.changedGua)
  THEN <<ReasonItem("BianGuaQueDing",
                    <<"DongYao">>
                    \o [k \in 1..Len(step6.movingPositions) |->
                          NumberText(step6.movingPositions[k])]
                    \o <<"BianGua", step6.changedGua.name>>)>>
  ELSE <<>>

\* pushed only when relations.length > 0
RelationsStep(relations) ==
  IF Len(relations) > 0
  THEN <<ReasonItem("GuanXiFenXi", <<"FaXian", NumberText(Len(relations)), "ZuGuanXi">>)>>
  ELSE <<>>

YongShenStep(yongShen) ==
  ReasonItem("YongShenXuanQu", <<"YongShen", yongShen.liuQin, yongShen.reason>>)

\* reasoningChain when step 8 is done
chainBeforeFocus(ganZhiTime, primaryGua, primaryYaoInfos, step6, relations) ==
  <<TimeStep(ganZhiTime), PrimaryStep(primaryGua), InstallStep(primaryGua),
    LiuShenStep(ganZhiTime, primaryYaoInfos), ProsperityStep(ganZhiTime)>>
  \o ChangedStep(step6) \o RelationsStep(relations)

\* steps 9 and 10 of castHexagram and the assembled result, when new Date() is
\* clock, nanoid(12) returns id and reasoningChain holds the steps pushed so far
finishCast(input, ganZhiTime, primaryGua, primaryYaoInfos, step6, relations, reasoningChain, clock, id) ==
  LET questionSubType == getQuestionSubType(input.questionCategory, input.subType, input.gender)
      yongShen == selectYongShen(primaryYaoInfos, questionSubType, input.gender)
      threw == \/ step6.changedGua.name = "throw"
               \/ getWorldYao(primaryYaoInfos).position = 0
               \/ getResponseYao(primaryYaoInfos).position = 0
  IN IF threw THEN [threw |-> TRUE, input |-> input]
     ELSE
       [threw |-> FALSE,
        id |-> id,
        createdAt |-> clock,
        input |-> input,
        primaryGua |-> primaryGua,
        primaryYao |-> primaryYaoInfos,
        changedGua |-> step6.changedGua,
        changedYao |-> step6.changedYaoInfos,
        mutualGua |-> getMutualGua(input.yaoStates),
        oppositeGua |-> getOppositeGua(input.yaoStates),
        reverseGua |-> getReverseGua(input.yaoStates),
        movingYaoPositions |-> step6.movingPositions,
        ganZhiTime |-> ganZhiTime,
        questionSubType |-> questionSubType,
        yongShen |-> yongShen,
        relations |-> relations,
        interpretation |-> generateInterpretation(primaryYaoInfos, step6.changedYaoInfos,
                                                  primaryGua, step6.changedGua, ganZhiTime,
                                                  yongShen, relations,
                                                  input.questionCategory, clock),
        fullReasoningChain |-> Append(reasoningChain, YongShenStep(yongShen))]

\* castHexagram from step 9 on, with the chain of steps 1 to 8
castAnalysed(input, ganZhiTime, primaryGua, primaryYaoInfos, step6, relations, clock, id) ==
  finishCast(input, ganZhiTime, primaryGua, primaryYaoInfos, step6, relations,
             chainBeforeFocus(ganZhiTime, primaryGua, primaryYaoInfos, step6, relations),
             clock, id)

\* castHexagram from step 6 on
castInstalled(input, ganZhiTime, primaryGua, primaryYaoInfos, clock, id) ==
  castAnalysed(input, ganZhiTime, primaryGua, primaryYaoInfos,
               castChanged(input.yaoStates, primaryYaoInfos, ganZhiTime),
               analyzeRelations(primaryYaoInfos, ganZhiTime), clock, id)

\* castHexagram from step 3 on; getGuaFromYaoStates has thrown when there is
\* no hexagram
castResolved(input, ganZhiTime, primaryGua, clock, id) ==
  IF ~IsGua(primaryGua) THEN [threw |-> TRUE, input |-> input]
  ELSE castInstalled(input, ganZhiTime, primaryGua,
                     analyzeAllProsperity(
                       installLiuShen(installHexagram(input.yaoStates, primaryGua),
                                      ganZhiTime.day.gan),
                       ganZhiTime),
                     clock, id)

\* castHexagram(input): steps 1 to 8 and then the rest
castHexagram(input, clock, id) ==
  castResolved(input, getGanZhiTime(PillarTime(input, clock)),
               getGuaFromYaoStates(input.yaoStates), clock, id)

\* --------------------------------------------- the calendar resolver, applied
\* first year of the timestamps drawn
FirstYear == 2024

\* number of further years drawn
YearSpan == 1

DateSet ==
  {MkDate(y, m, d, h) : y \in FirstYear..(FirstYear + YearSpan), m \in 1..12,
                        d \in 1..31, h \in 0..23}
  \ {dt \in [year : FirstYear..(FirstYear + YearSpan), month : 1..12, day : 29..31, hour : 0..23] :
       dt.day > DaysInMonth(dt.year, dt.month)}

CallGetGanZhiTime ==
  /\ call.fn = "idle"
  /\ UNCHANGED <<now, seen>>
  /\ \E date \in DateSet :
       call' = [fn |-> "getGanZhiTime", args |-> date, ret |-> getGanZhiTime(date)]

CallGetMonthGanZhi ==
  /\ call.fn = "idle"
  /\ UNCHANGED <<now, seen>>
  /\ \E date \in DateSet :
       call' = [fn |-> "getMonthGanZhi", args |-> date, ret |-> getMonthGanZhi(date)]

CallGetVoidBranches ==
  /\ call.fn = "idle"
  /\ UNCHANGED <<now, seen>>
  /\ \E g \in 1..Len(TIAN_GAN), z \in 1..Len(DI_ZHI) :
       call' = [fn |-> "getVoidBranches", args |-> <<TIAN_GAN[g], DI_ZHI[z]>>,
                ret |-> getVoidBranches(TIAN_GAN[g], DI_ZHI[z])]

InitGanZhi ==
  /\ call = Idle
  /\ now = 0
  /\ seen = {}

NextGanZhi ==
  \/ CallGetGanZhiTime
  \/ CallGetMonthGanZhi
  \/ CallGetVoidBranches
  \/ Return

SpecGanZhi == InitGanZhi /\ [][NextGanZhi]_vars

\* ------------------------------------------------- the pipeline, applied
\* the timestamps castings are made for
CastTimes == {MkDate(2024, 3, 15, 10), MkDate(2025, 1, 3, 23)}

\* the values nanoid(12) may return
NanoIds == {"id_a", "id_b"}

\* new Date() at tick t of the wall clock
ClockDate(t) == MkDate(2026, 11, 2 + 6 * t, 9 + t)

\* castHexagram is entered with a CastingInput; a field of the input is drawn
\* when the function first reads it.  Step 1 reads input.time.gregorian.
CastTime ==
  /\ call.fn = "idle"
  /\ UNCHANGED <<now, seen>>
  /\ \E t \in CastTimes :
       call' = [fn |-> "cast_time", args |-> [time |-> t],
                ret |-> [ganZhiTime |-> getGanZhiTime(t),
                         reasoningChain |-> <<TimeStep(getGanZhiTime(t))>>]]

\* step 2 reads input.yaoStates and resolves the primary hexagram
CastPrimary ==
  /\ call.fn = "cast_time"
  /\ UNCHANGED <<now, seen>>
  /\ \E ys \in YaoStatesSet :
       call' = [fn |-> "cast_primary",
                args |-> [time |-> call.args.time, yaoStates |-> ys],
                ret |-> [ganZhiTime |-> call.ret.ganZhiTime,
                         primaryGua |-> getGuaFromYaoStates(ys),
                         reasoningChain |->
                           IF IsGua(getGuaFromYaoStates(ys))
                           THEN Append(call.ret.reasoningChain,
                                       PrimaryStep(getGuaFromYaoStates(ys)))
                           ELSE call.ret.reasoningChain]]

\* step 3: installHexagram
CastInstall ==
  /\ call.fn = "cast_primary"
  /\ IsGua(call.ret.primaryGua)
  /\ UNCHANGED <<now, seen>>
  /\ call' = [call EXCEPT !.fn = "cast_install",
                !.ret = [ganZhiTime |-> call.ret.ganZhiTime,
                         primaryGua |-> call.ret.primaryGua,
                         before |-> <<>>,
                         primaryYaoInfos |-> installHexagram(call.args.yaoStates,
                                                             call.ret.primaryGua),
                         reasoningChain |-> Append(call.ret.reasoningChain,
                                                   InstallStep(call.ret.primaryGua))]]

\* step 4: installLiuShen
CastLiuShen ==
  /\ call.fn = "cast_install"
  /\ UNCHANGED <<now, seen>>
  /\ call' = [call EXCEPT !.fn = "cast_liushen",
                !.ret.before = call.ret.primaryYaoInfos,
                !.ret.primaryYaoInfos = installLiuShen(call.ret.primaryYaoInfos,
                                                       call.ret.ganZhiTime.day.gan),
                !.ret.reasoningChain =
                  Append(call.ret.reasoningChain,
                         LiuShenStep(call.ret.ganZhiTime,
                                     installLiuShen(call.ret.primaryYaoInfos,
                                                    call.ret.ganZhiTime.day.gan)))]

\* step 5: analyzeAllProsperity
CastProsperity ==
  /\ call.fn = "cast_liushen"
  /\ UNCHANGED <<now, seen>>
  /\ call' = [call EXCEPT !.fn = "cast_prosperity",
                !.ret.before = call.ret.primaryYaoInfos,
                !.ret.primaryYaoInfos = analyzeAllProsperity(call.ret.primaryYaoInfos,
                                                             call.ret.ganZhiTime),
                !.ret.reasoningChain = Append(call.ret.reasoningChain,
                                              ProsperityStep(call.ret.ganZhiTime))]

\* steps 6 and 7: the changed hexagram (the mutual, opposite and reverse
\* hexagrams of step 7 depend on the line states only and are kept in the result)
CastChanged ==
  /\ call.fn = "cast_prosperity"
  /\ UNCHANGED <<now, seen>>
  /\ LET step6 == castChanged(call.args.yaoStates, call.ret.primaryYaoInfos,
                              call.ret.ganZhiTime)
     IN call' = [call EXCEPT !.fn = "cast_changed",
                   !.ret = [ganZhiTime |-> call.ret.ganZhiTime,
                            primaryGua |-> call.ret.primaryGua,
                            primaryYaoInfos |-> call.ret.primaryYaoInfos,
                            step6 |-> step6,
                            reasoningChain |-> call.ret.reasoningChain \o ChangedStep(step6)]]

\* step 8: analyzeRelations
CastRelations ==
  /\ call.fn = "cast_changed"
  /\ UNCHANGED <<now, seen>>
  /\ LET relations == analyzeRelations(call.ret.primaryYaoInfos, call.ret.ganZhiTime)
     IN call' = [call EXCEPT !.fn = "cast_relations",
                   !.ret = [ganZhiTime |-> call.ret.ganZhiTime,
                            primaryGua |-> call.ret.primaryGua,
                            primaryYaoInfos |-> call.ret.primaryYaoInfos,
                            step6 |-> call.ret.step6,
                            relations |-> relations,
                            reasoningChain |->
                              call.ret.reasoningChain \o RelationsStep(relations)]]

\* steps 9 and 10 and the result; step 9 reads the category, the subtype and the
\* relationship flag (here: subtype defaulted, no flag)
CastFinish ==
  /\ call.fn = "cast_relations"
  /\ UNCHANGED <<now, seen>>
  /\ \E c \in QuestionCategories, id \in NanoIds :
       LET input == CastingInput(call.args.yaoStates, call.args.time, c, "undefined", "undefined")
       IN call' = [fn |-> "castHexagram", args |-> input,
                   ret |-> finishCast(input, call.ret.ganZhiTime, call.ret.primaryGua,
                                      call.ret.primaryYaoInfos, call.ret.step6,
                                      call.ret.relations, call.ret.reasoningChain,
                                      ClockDate(now), id)]

CallGetWorldYao ==
  /\ call.fn = "idle"
  /\ UNCHANGED <<now, seen>>
  /\ \E ys \in YaoStatesSet :
       LET yaoInfos == installHexagram(ys, getGuaFromYaoStates(ys))
       IN call' = [fn |-> "getWorldYao", args |-> yaoInfos, ret |-> getWorldYao(yaoInfos)]

CallGetResponseYao ==
  /\ call.fn = "idle"
  /\ UNCHANGED <<now, seen>>
  /\ \E ys \in YaoStatesSet :
       LET yaoInfos == installHexagram(ys, getGuaFromYaoStates(ys))
       IN call' = [fn |-> "getResponseYao", args |-> yaoInfos, ret |-> getResponseYao(yaoInfos)]

\* the call returns (or the error propagates) to the caller
ReturnCast ==
  /\ call.fn \in {"castHexagram", "getWorldYao", "getResponseYao"}
     \/ (call.fn = "cast_primary" /\ ~IsGua(call.ret.primaryGua))
  /\ call' = Idle
  /\ UNCHANGED <<now, seen>>

InitCast ==
  /\ call = Idle
  /\ now = 0
  /\ seen = {}

NextCast ==
  \/ CastTime
  \/ CastPrimary
  \/ CastInstall
  \/ CastLiuShen
  \/ CastProsperity
  \/ CastChanged
  \/ CastRelations
  \/ CastFinish
  \/ CallGetWorldYao
  \/ CallGetResponseYao
  \/ ReturnCast

SpecCast == InitCast /\ [][NextCast]_vars

\* ------------------------- the pipeline under every subtype and relationship flag
\* the (subType, gender) pairs of a casting input per category: the fields are
\* drawn where getQuestionSubType reads them (gender for love only, subType
\* for love, career, health and lost)
SubTypeChoices(category) ==
  CASE category = "love" ->
         {"undefined", "same_sex", "female"} \X {"undefined", "male", "female", "same_sex"}
    [] category = "career" -> {"undefined", "business"} \X {"undefined"}
    [] category = "health" -> {"undefined", "other"} \X {"undefined"}
    [] category = "lost" -> {"undefined", "person"} \X {"undefined"}
    [] OTHER -> {<<"undefined", "undefined">>}

\* castHexagram is entered; steps 1 to 8 read input.time.gregorian and
\* input.yaoStates only
FocusSteps ==
  /\ call.fn = "idle"
  /\ UNCHANGED <<now, seen>>
  /\ \E t \in CastTimes, ys \in YaoStatesSet :
       LET ganZhiTime == getGanZhiTime(t)
           primaryGua == getGuaFromYaoStates(ys)
           primaryYaoInfos ==
             IF IsGua(primaryGua)
             THEN analyzeAllProsperity(
                    installLiuShen(installHexagram(ys, primaryGua), ganZhiTime.day.gan),
                    ganZhiTime)
             ELSE <<>>
       IN call' = [fn |-> "cast_steps",
                   args |-> [time |-> t, yaoStates |-> ys],
                   ret |-> [ganZhiTime |-> ganZhiTime,
                            primaryGua |-> primaryGua,
                            primaryYaoInfos |-> primaryYaoInfos,
                            step6 |-> IF IsGua(primaryGua)
                                      THEN castChanged(ys, primaryYaoInfos, ganZhiTime)
                                      ELSE [movingPositions |-> <<>>,
                                            changedGua |-> NoGua("undefined", <<>>),
                                            changedYaoInfos |-> <<>>],
                            relations |-> IF IsGua(primaryGua)
                                          THEN analyzeRelations(primaryYaoInfos, ganZhiTime)
                                          ELSE <<>>,
                            reasoningChain |->
                              IF IsGua(primaryGua)
                              THEN chainBeforeFocus(
                                     ganZhiTime, primaryGua, primaryYaoInfos,
                                     castChanged(ys, primaryYaoInfos, ganZhiTime),
                                     analyzeRelations(primaryYaoInfos, ganZhiTime))
                              ELSE <<TimeStep(ganZhiTime)>>]]

\* steps 9 and 10 and the result, for a category, subtype and relationship flag
FocusFinish ==
  /\ call.fn = "cast_steps"
  /\ UNCHANGED <<now, seen>>
  /\ \E c \in QuestionCategories :
       \E choice \in SubTypeChoices(c) :
         LET input == CastingInput(call.args.yaoStates, call.args.time, c, choice[1], choice[2])
         IN call' = [fn |-> "castHexagram", args |-> input,
                     ret |-> IF IsGua(call.ret.primaryGua)
                             THEN finishCast(input, call.ret.ganZhiTime, call.ret.primaryGua,
                                             call.ret.primaryYaoInfos, call.ret.step6,
                                             call.ret.relations, call.ret.reasoningChain,
                                             ClockDate(now), "id_a")
                             ELSE [threw |-> TRUE, input |-> input]]

ReturnFocus ==
  /\ call.fn = "castHexagram"
  /\ call' = Idle
  /\ UNCHANGED <<now, seen>>

InitFocus ==
  /\ call = Idle
  /\ now = 0
  /\ seen = {}

NextFocus ==
  \/ FocusSteps
  \/ FocusFinish
  \/ ReturnFocus

SpecFocus == InitFocus /\ [][NextFocus]_vars

\* ------------------------------------------ castings under a running clock
\* last tick of the wall clock
MaxTick == 2

\* number of castings remembered
MaxSeen == 3

ReplayLines ==
  {[i \in 1..LineCount |-> coinSumToYaoState(sums[i])] :
     sums \in {<<8, 8, 8, 7, 7, 7>>, <<7, 8, 6, 8, 8, 7>>}}

\* the casting inputs cast again and again
ReplayInputs ==
  {CastingInput(ys, t, c, "undefined", "undefined") :
     ys \in ReplayLines, t \in {MkDate(2024, 3, 15, 10)}, c \in {"career", "other"}}

\* what two results are compared on: name and key of the primary hexagram, the
\* branch and the role of each line, the focus role and the trend
Digest(result) ==
  IF result.threw THEN [threw |-> TRUE]
  ELSE [threw |-> FALSE,
        name |-> result.primaryGua.name,
        binary |-> result.primaryGua.binary,
        diZhi |-> [i \in 1..Len(result.primaryYao) |-> result.primaryYao[i].diZhi],
        liuQin |-> [i \in 1..Len(result.primaryYao) |-> result.primaryYao[i].liuQin],
        yongShen |-> result.yongShen.liuQin,
        trend |-> result.interpretation.trend]

\* findFutureDatesWithZhi(startDate, targetZhi, maxDays): the days after
\* startDate, up to maxDays of them, whose day branch is targetZhi
findFutureDatesWithZhi(startDate, targetZhi, maxDays) ==
  LET checkDate == [i \in 1..maxDays |-> DateOfTime(getTime(startDate) + i * 24)]
  IN SelectSeq(checkDate,
               LAMBDA d : getDiZhiIndex(getDayGanZhi(d).zhi) = getDiZhiIndex(targetZhi))

\* new Date(year, month - 1 + i, 15): the 15th of the i-th month after the date
MonthsLater(date, i) ==
  MkDate(date.year + ((date.month - 1 + i) \div 12), ((date.month - 1 + i) % 12) + 1, 15, 0)

\* findFutureMonthsWithZhi(startDate, targetZhi, maxMonths): year and month of
\* the term opening each of the next maxMonths months whose branch is targetZhi
findFutureMonthsWithZhi(startDate, targetZhi, maxMonths) ==
  LET targetZhiIndex == getDiZhiIndex(targetZhi)
      jqIndex == JsMod(targetZhiIndex - 2 + 12, 12)
      jqMonth == JIE_QI_APPROX[jqIndex + 1][1]
      startYear(checkDate) ==
        IF jqMonth = 1 /\ checkDate.month - 1 > 6 THEN checkDate.year + 1
        ELSE IF jqMonth = 12 /\ checkDate.month - 1 < 6 THEN checkDate.year - 1
        ELSE checkDate.year
      checkDates == [i \in 1..maxMonths |-> MonthsLater(startDate, i)]
      hits == SelectSeq(checkDates,
                        LAMBDA d : getDiZhiIndex(getMonthGanZhi(d).zhi) = targetZhiIndex)
  IN [k \in 1..Len(hits) |-> [year |-> startYear(hits[k]), month |-> jqMonth]]

RECURSIVE MergeByTime(_, _)
\* [...a, ...b].sort((a, b) => a.getTime() - b.getTime()) of two ascending lists
MergeByTime(a, b) ==
  IF a = <<>> THEN b
  ELSE IF b = <<>> THEN a
  ELSE IF getTime(Head(a)) <= getTime(Head(b)) THEN <<Head(a)>> \o MergeByTime(Tail(a), b)
  ELSE <<Head(b)>> \o MergeByTime(a, Tail(b))

\* slice(0, n)
Slice(seq, n) == SubSeq(seq, 1, Min(n, Len(seq)))

\* the days searched for a prediction
SearchDays == 90

\* the months searched for a prediction
SearchMonths == 12

\* the dates a prediction of predictTiming reports (data.nearestDates)
nearestDates(prediction) ==
  CASE prediction.ruleName = "KongWangYingQi" ->
         Slice(MergeByTime(
                 Slice(findFutureDatesWithZhi(prediction.today, prediction.zhi, SearchDays), 3),
                 Slice(findFutureDatesWithZhi(prediction.today, prediction.clashZhi, SearchDays), 3)),
               4)
    [] prediction.ruleName = "DiZhiYingQi" ->
         Slice(findFutureDatesWithZhi(prediction.today, prediction.zhi, SearchDays), 4)
    [] OTHER ->
         Slice(findFutureDatesWithZhi(prediction.today, prediction.zhi, SearchDays), 3)

\* the months a prediction reports (only the branch rule names months)
nearestMonths(prediction) ==
  IF prediction.ruleName = "DiZhiYingQi"
  THEN Slice(findFutureMonthsWithZhi(prediction.today, prediction.zhi, SearchMonths), 2)
  ELSE <<>>

\* dates.map(d => formatDateChinese(d)): year, month and day of each date
formatDates(dates) ==
  [k \in 1..Len(dates) |->
     [year |-> dates[k].year, month |-> dates[k].month, day |-> dates[k].day]]

\* the timing predictions of a result as displayed: rule, dates and months
TimingOf(result) ==
  IF result.threw THEN <<>>
  ELSE [k \in 1..Len(result.interpretation.timingPredictions) |->
          LET prediction == result.interpretation.timingPredictions[k]
          IN [ruleName |-> prediction.ruleName,
              zhi |-> prediction.zhi,
              clashZhi |-> prediction.clashZhi,
              dates |-> formatDates(nearestDates(prediction)),
              months |-> nearestMonths(prediction)]]

\* time passes
Tick ==
  /\ now < MaxTick
  /\ now' = now + 1
  /\ UNCHANGED <<call, seen>>

\* the result of a casting is returned and remembered
Remember(input, result) ==
  /\ call' = [fn |-> "castHexagram", args |-> input, ret |-> result]
  /\ seen' = seen \cup {[input |-> input, digest |-> Digest(result),
                          timing |-> TimingOf(result), at |-> now]}

\* castHexagram(input), start to end, at the present tick of the clock
CallCastHexagram ==
  /\ call.fn = "idle"
  /\ Cardinality(seen) < MaxSeen
  /\ \E input \in ReplayInputs, id \in NanoIds :
       Remember(input, castHexagram(input, ClockDate(now), id))
  /\ UNCHANGED now

InitReplay ==
  /\ call = Idle
  /\ now = 0
  /\ seen = {}

NextReplay ==
  \/ Tick
  \/ CallCastHexagram
  \/ Return

SpecReplay == InitReplay /\ [][NextReplay]_vars

\* ------------------------------------------ engine.ts: the share code
\* a member of the JSON object: absent, null, a number, or a string (the string
\* of y is kept as its characters)
Absent == [type |-> "absent", num |-> 0, str |-> "", chars |-> <<>>]

JsonNull == [type |-> "null", num |-> 0, str |-> "", chars |-> <<>>]

JsonNumber(n) == [type |-> "number", num |-> n, str |-> "", chars |-> <<>>]

JsonString(s) == [type |-> "string", num |-> 0, str |-> s, chars |-> <<>>]

JsonChars(cs) == [type |-> "string", num |-> 0, str |-> "", chars |-> cs]

\* JSON.stringify of one member: undefined is left out
StringifyMember(value) == IF value = "undefined" THEN Absent ELSE JsonString(value)

\* the text handed to deserializeResult: whether atob accepts it, whether
\* JSON.parse accepts the decoded text, whether the value parsed is an object,
\* and the members y, t, q, m of that object
Code(base64, json, object, y, t, q, m) ==
  [base64 |-> base64, json |-> json, object |-> object, y |-> y, t |-> t, q |-> q, m |-> m]

\* mutant: the digit is taken from the polarity alone
YaoDigit_FromYinYang(y) == IF y.yinYang = "yang" THEN "7" ELSE "8"

\* the digit of a line in the member y
YaoDigit(y) ==
  IF y.type = "old_yang" THEN "9"
  ELSE IF y.type = "young_yang" THEN "7"
  ELSE IF y.type = "young_yin" THEN "8"
  ELSE "6"

\* btoa(JSON.stringify(data))
serializeResult(result) ==
  Code(TRUE, TRUE, TRUE,
       JsonChars([i \in 1..Len(result.input.yaoStates) |-> YaoDigit(result.input.yaoStates[i])]),
       JsonNumber(getTime(result.input.time)),
       StringifyMember(result.input.questionCategory),
       StringifyMember(result.input.method))

\* Number.NaN, as parseInt returns it
NaN == 0 - 1

\* parseInt of one character
parseInt(char) ==
  CASE char = "0" -> 0 [] char = "1" -> 1 [] char = "2" -> 2 [] char = "3" -> 3
    [] char = "4" -> 4 [] char = "5" -> 5 [] char = "6" -> 6 [] char = "7" -> 7
    [] char = "8" -> 8 [] char = "9" -> 9 [] OTHER -> NaN

\* the line state built from one character of y
DecodeYao(char) ==
  LET num == parseInt(char)
  IN [yinYang |-> IF num = 7 \/ num = 9 THEN "yang" ELSE "yin",
      isMoving |-> (num = 6 \/ num = 9),
      type |-> IF num = 9 THEN "old_yang" ELSE IF num = 7 THEN "young_yang"
               ELSE IF num = 8 THEN "young_yin" ELSE "old_yin",
      coinResult |-> num]

\* new Date(data.t)
NewDate(t) ==
  IF t.type = "number" THEN DateOfTime(t.num)
  ELSE IF t.type = "null" THEN DateOfTime(0)
  ELSE InvalidDate

\* the null of deserializeResult
NullInput == [isNull |-> TRUE]

\* value || fallback for a string member
OrElse(member, fallback) ==
  IF member.type = "string" /\ member.str # "" THEN member.str ELSE fallback

deserializeResult(encoded) ==
  IF ~encoded.base64 \/ ~encoded.json THEN NullInput
  ELSE IF ~encoded.object \/ encoded.y.type # "string" THEN NullInput
  ELSE [isNull |-> FALSE,
        method |-> OrElse(encoded.m, "coin"),
        yaoStates |-> [i \in 1..Len(encoded.y.chars) |-> DecodeYao(encoded.y.chars[i])],
        time |-> NewDate(encoded.t),
        questionCategory |-> OrElse(encoded.q, "other")]

\* ------------------------------------------ the share code, applied
CastingMethods == {"coin", "time", "manual"}

\* a CastingInput with its method
ShareInput(method, yaoStates, time, questionCategory) ==
  [method |-> method, yaoStates |-> yaoStates, time |-> time,
   questionCategory |-> questionCategory]

ShareInputs ==
  {ShareInput(m, ys, t, c) :
     m \in CastingMethods, ys \in YaoStatesSet, t \in CastTimes, c \in {"career", "other"}}

YStrings ==
  {<<"7", "8", "9", "6", "7", "8">>, <<"7", "8">>, <<>>, <<"7", "8", "9", "6", "7", "8", "9">>,
   <<"7", "8", "5", "6", "7", "8">>, <<"7", "a", "9", "6", "7", "8">>}

\* strings that are not the encoding of a casting input, and one that is
OtherCodes ==
  {Code(FALSE, FALSE, FALSE, Absent, Absent, Absent, Absent),
   Code(TRUE, FALSE, FALSE, Absent, Absent, Absent, Absent),
   Code(TRUE, TRUE, FALSE, Absent, Absent, Absent, Absent)}
  \cup {Code(TRUE, TRUE, TRUE, y, t, q, m) :
          y \in {Absent, JsonNumber(789678)} \cup {JsonChars(cs) : cs \in YStrings},
          t \in {Absent, JsonNull, JsonString("soon"), JsonNumber(getTime(MkDate(2024, 3, 15, 10)))},
          q \in {Absent, JsonString("career")},
          m \in {Absent, JsonString("coin")}}

\* serializeResult(result) for the result of a casting of input
CallSerializeResult ==
  /\ call.fn = "idle"
  /\ \E input \in ShareInputs :
       call' = [fn |-> "serializeResult", args |-> [input |-> input],
                ret |-> serializeResult([input |-> input])]
  /\ UNCHANGED <<now, seen>>

\* deserializeResult of the code just made
DecodeShared ==
  /\ call.fn = "serializeResult"
  /\ call' = [fn |-> "decodeShared", args |-> call.args, ret |-> deserializeResult(call.ret)]
  /\ UNCHANGED <<now, seen>>

\* deserializeResult of any other string
CallDeserializeResult ==
  /\ call.fn = "idle"
  /\ \E encoded \in OtherCodes :
       call' = [fn |-> "deserializeResult", args |-> encoded, ret |-> deserializeResult(encoded)]
  /\ UNCHANGED <<now, seen>>

ReturnShare ==
  /\ call.fn \in {"decodeShared", "deserializeResult"}
  /\ call' = Idle
  /\ UNCHANGED <<now, seen>>

InitShare ==
  /\ call = Idle
  /\ now = 0
  /\ seen = {}

NextShare ==
  \/ CallSerializeResult
  \/ DecodeShared
  \/ CallDeserializeResult
  \/ ReturnShare

SpecShare == InitShare /\ [][NextShare]_vars

\* ------------------------------- a shared casting opened and computed again
\* the casting inputs shared: a method, six line states, a timestamp and
\* every category with every subtype and relationship flag
ReopenInputs ==
  UNION {{[method |-> "coin"] @@ CastingInput(ys, t, c, choice[1], choice[2]) :
            ys \in ReplayLines, t \in CastTimes, choice \in SubTypeChoices(c)} :
         c \in QuestionCategories}

\* the CastingInput deserializeResult returns, as castHexagram reads it: the
\* members subType and gender are not there, so reading them gives undefined
DecodedInput(decoded) ==
  [method |-> decoded.method]
    @@ CastingInput(decoded.yaoStates, decoded.time, decoded.questionCategory,
                    "undefined", "undefined")

\* castHexagram(input) of the original input
CastOriginal ==
  /\ call.fn = "idle"
  /\ UNCHANGED <<now, seen>>
  /\ \E input \in ReopenInputs :
       call' = [fn |-> "castHexagram", args |-> input,
                ret |-> castHexagram(input, ClockDate(now), "id_a")]

\* serializeResult(result) of the result just computed
ShareResult ==
  /\ call.fn = "castHexagram"
  /\ ~call.ret.threw
  /\ UNCHANGED <<now, seen>>
  /\ call' = [fn |-> "serializeResult", args |-> call.ret, ret |-> serializeResult(call.ret)]

\* deserializeResult(code) of the share code
OpenShared ==
  /\ call.fn = "serializeResult"
  /\ UNCHANGED <<now, seen>>
  /\ call' = [fn |-> "deserializeResult", args |-> call.args,
              ret |-> deserializeResult(call.ret)]

\* castHexagram(decoded) of the decoded input; args keeps the original result
CastDecoded ==
  /\ call.fn = "deserializeResult"
  /\ ~call.ret.isNull
  /\ UNCHANGED <<now, seen>>
  /\ call' = [fn |-> "castDecoded", args |-> call.args,
              ret |-> castHexagram(DecodedInput(call.ret), ClockDate(now), "id_b")]

ReturnReopen ==
  /\ call.fn = "castDecoded"
  /\ call' = Idle
  /\ UNCHANGED <<now, seen>>

InitReopen ==
  /\ call = Idle
  /\ now = 0
  /\ seen = {}

NextReopen ==
  \/ CastOriginal
  \/ ShareResult
  \/ OpenShared
  \/ CastDecoded
  \/ ReturnReopen

SpecReopen == InitReopen /\ [][NextReopen]_vars

\* ------------------------------------------ engine.ts: validation
\* a Partial<CastingInput>: the members it has, and their values
PartialInput(has, yaoStates, time, questionCategory) ==
  [has |-> has,
   yaoStates |-> IF "yaoStates" \in has THEN yaoStates ELSE <<>>,
   time |-> IF "time" \in has THEN time ELSE InvalidDate,
   questionCategory |-> IF "questionCategory" \in has THEN questionCategory ELSE "undefined"]

\* !input.yaoStates || input.yaoStates.length !== 6
NeedsSixYao(input) == "yaoStates" \notin input.has \/ Len(input.yaoStates) # 6

validateCastingInput(input) ==
  (IF NeedsSixYao(input) THEN <<"BiXuTiGongLiuGeYaoDeZhuangTai">> ELSE <<>>)
  \o (IF "time" \notin input.has THEN <<"BiXuTiGongQiGuaShiJian">> ELSE <<>>)
  \o (IF "questionCategory" \notin input.has \/ input.questionCategory = ""
      THEN <<"BiXuXuanZeWenShiLeiBie">> ELSE <<>>)

\* the numbered steps of castHexagram
CastStages ==
  <<"getGanZhiTime", "getGuaFromYaoStates", "installHexagram", "installLiuShen",
    "analyzeAllProsperity", "getChangedGua", "getMutualGua", "analyzeRelations",
    "selectYongShen", "generateInterpretation">>

\* the stages passed by a call of castHexagram that got past step 2
StagesOf(result) ==
  [threw |-> result.threw,
   stages |-> IF result.threw THEN SubSeq(CastStages, 1, 5) ELSE CastStages]

\* castHexagram of an input that need not be complete: the steps that ran, and
\* whether it threw. Reading input.time.gregorian of a missing time throws
\* before step 1; missing line states throw in step 2 (map of undefined), as
\* does a key of the wrong length
castPartial(input, clock, id) ==
  IF "time" \notin input.has THEN [threw |-> TRUE, stages |-> <<>>]
  ELSE IF "yaoStates" \notin input.has \/ ~IsGua(getGuaFromYaoStates(input.yaoStates))
  THEN [threw |-> TRUE, stages |-> SubSeq(CastStages, 1, 1)]
  ELSE StagesOf(castHexagram(CastingInput(input.yaoStates, input.time,
                                          input.questionCategory, "undefined", "undefined"),
                             clock, id))

\* ------------------------------------------ validation, applied
PartialSums ==
  {<<7, 7, 7, 7, 7, 7, 8>>, <<8, 6, 7, 9, 8, 7, 7>>, <<9, 9, 9, 9, 9, 9, 9>>, <<8, 8, 7, 6, 8, 8, 6>>}

\* lists of five, six and seven line states
PartialLines ==
  {[i \in 1..n |-> coinSumToYaoState(sums[i])] : sums \in PartialSums, n \in 5..7}

PartialInputs ==
  {PartialInput(has, ys, t, c) :
     has \in SUBSET {"yaoStates", "time", "questionCategory"},
     ys \in PartialLines, t \in CastTimes, c \in {"career", "other"}}

CallValidateCastingInput ==
  /\ call.fn = "idle"
  /\ \E input \in PartialInputs :
       call' = [fn |-> "validateCastingInput", args |-> input,
                ret |-> validateCastingInput(input)]
  /\ UNCHANGED <<now, seen>>

\* castHexagram(input) as exported: called with whatever the caller has
CallCastPartial ==
  /\ call.fn = "idle"
  /\ \E input \in PartialInputs, id \in NanoIds :
       call' = [fn |-> "castPartial", args |-> input,
                ret |-> castPartial(input, ClockDate(now), id)]
  /\ UNCHANGED <<now, seen>>

InitValidate ==
  /\ call = Idle
  /\ now = 0
  /\ seen = {}

NextValidate ==
  \/ CallValidateCastingInput
  \/ CallCastPartial
  \/ Return

SpecValidate == InitValidate /\ [][NextValidate]_vars

\* ------------------------------------------ the guardian assigner, applied
\* installed lines of sixteen hexagrams
LiuShenLines ==
  {installHexagram(ys, getGuaFromYaoStates(ys)) :
     ys \in {[i \in 1..LineCount |-> coinSumToYaoState(s[i])] :
               s \in {t \in [1..LineCount -> {7, 8}] : t[5] = 7 /\ t[6] = 8}}}

CallGetLiuShenArray ==
  /\ call.fn = "idle"
  /\ \E g \in 1..Len(TIAN_GAN) :
       call' = [fn |-> "getLiuShenArray", args |-> <<TIAN_GAN[g]>>,
                ret |-> getLiuShenArray(TIAN_GAN[g])]
  /\ UNCHANGED <<now, seen>>

CallInstallLiuShen ==
  /\ call.fn = "idle"
  /\ \E yaoInfos \in LiuShenLines, g \in 1..Len(TIAN_GAN) :
       call' = [fn |-> "installLiuShen", args |-> <<yaoInfos, TIAN_GAN[g]>>,
                ret |-> installLiuShen(yaoInfos, TIAN_GAN[g])]
  /\ UNCHANGED <<now, seen>>

InitLiuShen ==
  /\ call = Idle
  /\ now = 0
  /\ seen = {}

NextLiuShen ==
  \/ CallGetLiuShenArray
  \/ CallInstallLiuShen
  \/ Return

SpecLiuShen == InitLiuShen /\ [][NextLiuShen]_vars

\* ------------------------------------------ the strength analyzer, applied
\* the members of a line that analyzeProsperity reads
ProsperityYao(diZhi) == [diZhi |-> diZhi, wuXing |-> DI_ZHI_WU_XING[diZhi]]

\* the members of a GanZhiTime that analyzeProsperity reads, for a month branch
\* and a day pillar
ProsperityTime(monthZhi, dayGan, dayZhi) ==
  [month |-> [zhi |-> monthZhi],
   day |-> [gan |-> dayGan, zhi |-> dayZhi],
   voidBranches |-> getVoidBranches(dayGan, dayZhi),
   monthWuXing |-> DI_ZHI_WU_XING[monthZhi],
   dayWuXing |-> DI_ZHI_WU_XING[dayZhi]]

\* the sixty day pillars: stem and branch of equal parity
DayPillars ==
  {<<TIAN_GAN[gz[1]], DI_ZHI[gz[2]]>> :
     gz \in {p \in (1..Len(TIAN_GAN)) \X (1..Len(DI_ZHI)) : p[1] % 2 = p[2] % 2}}

CallGetProsperityByMonth ==
  /\ call.fn = "idle"
  /\ \E targetWuXing \in WuXingSet, monthWuXing \in WuXingSet :
       call' = [fn |-> "getProsperityByMonth", args |-> <<targetWuXing, monthWuXing>>,
                ret |-> getProsperityByMonth(targetWuXing, monthWuXing)]
  /\ UNCHANGED <<now, seen>>

CallAnalyzeProsperity ==
  /\ call.fn = "idle"
  /\ \E y \in 1..Len(DI_ZHI), m \in 1..Len(DI_ZHI), day \in DayPillars :
       LET yaoInfo == ProsperityYao(DI_ZHI[y])
           ganZhiTime == ProsperityTime(DI_ZHI[m], day[1], day[2])
       IN call' = [fn |-> "analyzeProsperity", args |-> <<yaoInfo, ganZhiTime>>,
                   ret |-> analyzeProsperity(yaoInfo, ganZhiTime)]
  /\ UNCHANGED <<now, seen>>

InitProsperity ==
  /\ call = Idle
  /\ now = 0
  /\ seen = {}

NextProsperity ==
  \/ CallGetProsperityByMonth
  \/ CallAnalyzeProsperity
  \/ Return

SpecProsperity == InitProsperity /\ [][NextProsperity]_vars

\* ------------------------------------- CoinFlip.tsx: the three-coin widget
\* For the components, call holds the handler run last, its arguments and the
\* component state it left behind; seen holds the calls made out of the
\* component.  Timers hold the time left until they fire, in steps of 100 ms.

\* setTimeout(..., 800) of flipCoin
FlipDelay == 8

\* setTimeout(..., 500) of handleCoinResult
CompleteDelay == 5

\* lines the widget is asked for
MaxLines == 1

\* Math.random() < 0.5 ? 2 : 3
CoinFaces == {2, 3}

CoinIndexes == 0 .. 2

\* an array slot that is a hole or undefined
Undefined == 0

\* const newResults = [...results]; newResults[index] = result;
SetAt(results, index, result) ==
  [k \in 1 .. Max(Len(results), index + 1) |->
     IF k = index + 1 THEN result
     ELSE IF k <= Len(results) THEN results[k] ELSE Undefined]

\* results[index], undefined beyond the length
ResultAt(results, index) == IF index + 1 <= Len(results) THEN results[index + 1] ELSE Undefined

\* newResults.filter(r => r !== undefined).length
DefinedCount(results) == Cardinality({k \in 1 .. Len(results) : results[k] # Undefined})

\* newResults.reduce((a, b) => a + b, 0): holes are skipped
RECURSIVE SumOf(_)
SumOf(results) == IF results = <<>> THEN 0 ELSE Head(results) + SumOf(Tail(results))

\* a SingleCoin at rest: useState(false), useState(null), no timer
CoinAtRest(result) == [isFlipping |-> FALSE, result |-> result, left |-> -1, onResult |-> <<>>]

NothingReported == [index \in CoinIndexes |-> Undefined]

\* ThreeCoins after mounting: useState([]), useState(false), three coins at
\* rest; reported holds what each coin has reported for the line being thrown
CoinsMounted ==
  [results |-> <<>>, isComplete |-> FALSE,
   coins |-> [index \in CoinIndexes |-> CoinAtRest(Undefined)],
   timers |-> <<>>,
   reported |-> NothingReported]

\* disabled={results[index] !== undefined}
Disabled(w, index) == ResultAt(w.results, index) # Undefined

\* flipCoin of coin index: the timer keeps the onResult of this render, which
\* is handleCoinResult closed over the results of this render
flipCoin(w, index) ==
  [w EXCEPT !.coins[index] =
     [isFlipping |-> TRUE, result |-> Undefined, left |-> FlipDelay, onResult |-> w.results]]

\* handleCoinResult(index, result) of the render whose results are captured
handleCoinResult(w, captured, index, result) ==
  LET newResults == SetAt(captured, index, result)
      done == DefinedCount(newResults) = 3
  IN [w EXCEPT !.results = newResults,
               !.isComplete = IF done THEN TRUE ELSE @,
               !.timers = IF done
                            THEN Append(@, [left |-> CompleteDelay, sum |-> SumOf(newResults)])
                            ELSE @]

\* the timer of flipCoin fires with the face thrown
coinTimer(w, index, result) ==
  LET landed == [w EXCEPT !.coins[index] = CoinAtRest(result),
                          !.reported[index] = result]
  IN handleCoinResult(landed, w.coins[index].onResult, index, result)

\* the timer of handleCoinResult fires: setResults([]); setIsComplete(false)
completeTimer(w) ==
  [w EXCEPT !.results = <<>>, !.isComplete = FALSE, !.timers = Tail(@),
            !.reported = NothingReported]

\* the reset button: setResults([])
resetLine(w) == [w EXCEPT !.results = <<>>, !.reported = NothingReported]

\* 100 ms pass
elapse(w) ==
  [w EXCEPT !.coins = [index \in CoinIndexes |->
                         IF @[index].left > 0 THEN [@[index] EXCEPT !.left = @ - 1] ELSE @[index]],
            !.timers = [k \in 1 .. Len(@) |-> [@[k] EXCEPT !.left = @ - 1]]]

\* some timer is due now
TimerDue(w) ==
  \/ \E index \in CoinIndexes : w.coins[index].left = 0
  \/ \E k \in 1 .. Len(w.timers) : w.timers[k].left = 0

\* some timer is set
TimerSet(w) ==
  \/ \E index \in CoinIndexes : w.coins[index].left >= 0
  \/ w.timers # <<>>

\* a click on a coin
FlipCoin ==
  /\ call.fn # "idle"
  /\ Cardinality(seen) < MaxLines
  /\ \E index \in CoinIndexes :
       /\ ~call.ret.coins[index].isFlipping
       /\ ~Disabled(call.ret, index)
       /\ call' = [fn |-> "flipCoin", args |-> <<index>>, ret |-> flipCoin(call.ret, index)]
  /\ UNCHANGED <<now, seen>>

\* a coin lands
CoinTimer ==
  /\ call.fn # "idle"
  /\ \E index \in CoinIndexes, result \in CoinFaces :
       /\ call.ret.coins[index].left = 0
       /\ call' = [fn |-> "coinTimer", args |-> <<index, result>>,
                   ret |-> coinTimer(call.ret, index, result)]
  /\ UNCHANGED <<now, seen>>

\* the line is handed over: onComplete(sum), then the widget is reset
CompleteTimer ==
  /\ call.fn # "idle"
  /\ call.ret.timers # <<>>
  /\ Head(call.ret.timers).left = 0
  /\ call' = [fn |-> "completeTimer", args |-> <<Head(call.ret.timers).sum>>,
              ret |-> completeTimer(call.ret)]
  /\ seen' = seen \cup {[line |-> Cardinality(seen) + 1, sum |-> Head(call.ret.timers).sum]}
  /\ UNCHANGED now

\* a click on the reset button, shown when results.length > 0 && results.length < 3
ResetLine ==
  /\ call.fn # "idle"
  /\ Len(call.ret.results) > 0
  /\ Len(call.ret.results) < 3
  /\ call' = [fn |-> "resetLine", args |-> <<>>, ret |-> resetLine(call.ret)]
  /\ UNCHANGED <<now, seen>>

\* time passes while a timer is set and none is due
Elapse ==
  /\ call.fn # "idle"
  /\ TimerSet(call.ret)
  /\ ~TimerDue(call.ret)
  /\ call' = [fn |-> "elapse", args |-> <<>>, ret |-> elapse(call.ret)]
  /\ UNCHANGED <<now, seen>>

InitCoins ==
  /\ call = [fn |-> "ThreeCoins", args |-> <<>>, ret |-> CoinsMounted]
  /\ now = 0
  /\ seen = {}

NextCoins ==
  \/ FlipCoin
  \/ CoinTimer
  \/ CompleteTimer
  \/ ResetLine
  \/ Elapse

SpecCoins == InitCoins /\ [][NextCoins]_vars

\* ------------------------------- app/cast/page.tsx: the cast page, coin method
\* The page as it is opened (method 'coin'), with the coins of a line flipped
\* one at a time.  Timers outlive the component that set them; a state setter
\* of a component that is no longer mounted does nothing.

\* delay of the phases of performDivination, in steps of 100 ms
PhaseDelays == <<8, 12, 10, 9, 11, 8, 7>>

\* categories chosen on the page
PageCategories == {"other", "love"}

\* the choices of the gender step
PageGenders == {"male", "female", "same_sex"}

\* times the cast step is entered
MaxMounts == 1

\* the faces the coins of the page land on
PageFaces == {3}

\* CoinCasting and its ThreeCoins after mounting: useState(1), useState([]);
\* landed and sum are the results of the coins landed so far
CastingMounted ==
  [currentYao |-> 1, yaoResults |-> <<>>, landed |-> 0, sum |-> 0, isFlipping |-> FALSE]

\* CastPageContent after mounting
PageMounted ==
  [step |-> "category", method |-> "coin", category |-> "other", gender |-> "null",
   yaoStates |-> <<>>, result |-> "null", isProcessing |-> FALSE, calculationPhase |-> 0,
   casting |-> CastingMounted, mount |-> 0, timers |-> <<>>]

RemoveAt(seq, k) == SubSeq(seq, 1, k - 1) \o SubSeq(seq, k + 1, Len(seq))

\* the cast step is rendered with a new CoinCasting
EnterCast(p) == [p EXCEPT !.step = "cast", !.casting = CastingMounted, !.mount = @ + 1]

\* the cast step is no longer rendered
LeaveCast(p, step) == [p EXCEPT !.step = step, !.casting = CastingMounted]

\* the component instance that set the timer is still mounted
StillMounted(p, timer) == p.step = "cast" /\ timer.mount = p.mount

handleCategorySelect(p, cat) ==
  IF cat = "love" THEN [p EXCEPT !.category = cat, !.step = "gender"]
  ELSE EnterCast([p EXCEPT !.category = cat])

handleGenderSelect(p, g) == EnterCast([p EXCEPT !.gender = g])

handleReset(p) ==
  [LeaveCast(p, "category") EXCEPT !.yaoStates = <<>>, !.result = "null", !.gender = "null"]

\* flipCoin of the next coin of the line: the timer keeps the handlers of this
\* render, closed over results, yaoResults, currentYao, category and gender
flipNextCoin(p) ==
  [p EXCEPT !.casting.isFlipping = TRUE,
            !.timers = Append(@, [kind |-> "flip", left |-> FlipDelay, mount |-> p.mount,
                                  landed |-> p.casting.landed, sum |-> p.casting.sum,
                                  yaoResults |-> p.casting.yaoResults,
                                  currentYao |-> p.casting.currentYao,
                                  category |-> p.category, gender |-> p.gender])]

\* the flip timer k fires: handleCoinResult of the captured render
coinLands(p, k, result) ==
  LET timer == p.timers[k]
      done == timer.landed + 1 = 3
      shown == IF StillMounted(p, timer)
               THEN [p EXCEPT !.casting.isFlipping = FALSE,
                              !.casting.landed = timer.landed + 1,
                              !.casting.sum = timer.sum + result]
               ELSE p
  IN [shown EXCEPT !.timers =
        IF done
        THEN Append(RemoveAt(@, k), [timer EXCEPT !.kind = "complete", !.left = CompleteDelay,
                                                  !.sum = @ + result])
        ELSE RemoveAt(@, k)]

\* performDivination(states) of the render with this category and gender
performDivination(p, states, category, gender) ==
  [p EXCEPT !.isProcessing = TRUE,
            !.calculationPhase = 1,
            !.timers = Append(@, [kind |-> "phase", left |-> PhaseDelays[1], index |-> 1,
                                  states |-> states, category |-> category,
                                  gender |-> gender])]

\* handleCoinComplete(results)
handleCoinComplete(p, results, category, gender) ==
  LET states == [i \in 1 .. Len(results) |-> coinSumToYaoState(results[i])]
  IN performDivination([p EXCEPT !.yaoStates = states], states, category, gender)

\* handleYaoComplete(sum) of the render with these yaoResults and currentYao
handleYaoComplete(p, timer) ==
  LET newResults == Append(timer.yaoResults, timer.sum)
      stored == IF StillMounted(p, timer)
                THEN [p EXCEPT !.casting.yaoResults = newResults,
                               !.casting.currentYao =
                                 IF Len(newResults) < LineCount THEN timer.currentYao + 1 ELSE @]
                ELSE p
  IN IF Len(newResults) < LineCount THEN stored
     ELSE handleCoinComplete(stored, newResults, timer.category, timer.gender)

\* the timer k of handleCoinResult fires: onComplete(sum); setResults([]);
\* setIsComplete(false)
lineDone(p, k) ==
  LET timer == p.timers[k]
      handed == handleYaoComplete([p EXCEPT !.timers = RemoveAt(@, k)], timer)
  IN IF StillMounted(p, timer)
     THEN [handed EXCEPT !.casting.landed = 0, !.casting.sum = 0]
     ELSE handed

\* the input runPhase builds when the phases are over
PageInput(p, timer, clock) ==
  [method |-> p.method]
    @@ CastingInput(timer.states, clock, timer.category, "undefined",
                    IF timer.gender = "null" THEN "undefined" ELSE timer.gender)

\* the phase timer k fires: the next phase, or castHexagram(input) and the
\* result step; an exception of castHexagram ends the callback
runPhase(p, k, result) ==
  LET timer == p.timers[k]
      rest == [p EXCEPT !.timers = RemoveAt(@, k)]
  IN IF timer.index < Len(PhaseDelays)
     THEN [rest EXCEPT !.calculationPhase = timer.index + 1,
                       !.timers = Append(@, [timer EXCEPT !.index = @ + 1,
                                                          !.left = PhaseDelays[timer.index + 1]])]
     ELSE IF result.threw THEN rest
     ELSE [LeaveCast(rest, "result") EXCEPT !.result = Digest(result),
                                            !.isProcessing = FALSE,
                                            !.calculationPhase = 0]

\* 100 ms pass
pageElapse(p) == [p EXCEPT !.timers = [k \in 1 .. Len(@) |-> [@[k] EXCEPT !.left = @ - 1]]]

\* timer k is due
Due(p, k, kind) == p.timers[k].kind = kind /\ p.timers[k].left = 0

\* a click on a category card
SelectCategory ==
  /\ call.fn # "idle"
  /\ call.ret.step = "category"
  /\ call.ret.mount < MaxMounts
  /\ \E cat \in PageCategories :
       call' = [fn |-> "handleCategorySelect", args |-> <<cat>>,
                ret |-> handleCategorySelect(call.ret, cat)]
  /\ UNCHANGED <<now, seen>>

\* a click on a card of the gender step
SelectGender ==
  /\ call.fn # "idle"
  /\ call.ret.step = "gender"
  /\ \E g \in PageGenders :
       call' = [fn |-> "handleGenderSelect", args |-> <<g>>,
                ret |-> handleGenderSelect(call.ret, g)]
  /\ UNCHANGED <<now, seen>>

\* the back button of the gender step: setStep('category')
BackToCategory ==
  /\ call.fn # "idle"
  /\ call.ret.step = "gender"
  /\ call' = [fn |-> "setStep", args |-> <<"category">>,
              ret |-> [call.ret EXCEPT !.step = "category"]]
  /\ UNCHANGED <<now, seen>>

\* the button shown when step !== 'category'
Reset ==
  /\ call.fn # "idle"
  /\ call.ret.step # "category"
  /\ call' = [fn |-> "handleReset", args |-> <<>>, ret |-> handleReset(call.ret)]
  /\ UNCHANGED <<now, seen>>

\* a click on the next coin of the line; no coin is shown outside the cast step
FlipNextCoin ==
  /\ call.fn # "idle"
  /\ call.ret.step = "cast"
  /\ ~call.ret.casting.isFlipping
  /\ call.ret.casting.landed < 3
  /\ call' = [fn |-> "flipCoin", args |-> <<call.ret.casting.landed>>,
              ret |-> flipNextCoin(call.ret)]
  /\ UNCHANGED <<now, seen>>

\* a coin lands
CoinLands ==
  /\ call.fn # "idle"
  /\ \E k \in 1 .. Len(call.ret.timers), result \in PageFaces :
       /\ Due(call.ret, k, "flip")
       /\ call' = [fn |-> "coinTimer", args |-> <<call.ret.timers[k].landed, result>>,
                   ret |-> coinLands(call.ret, k, result)]
  /\ UNCHANGED <<now, seen>>

\* a line is handed over
LineDone ==
  /\ call.fn # "idle"
  /\ \E k \in 1 .. Len(call.ret.timers) :
       /\ Due(call.ret, k, "complete")
       /\ call' = [fn |-> "handleYaoComplete", args |-> <<call.ret.timers[k].sum>>,
                   ret |-> lineDone(call.ret, k)]
  /\ UNCHANGED <<now, seen>>

\* the callback of phase timer k ends with this result of castHexagram
PhaseEnds(k, last, result) ==
  /\ call' = [fn |-> "runPhase", args |-> <<call.ret.timers[k].index>>,
              ret |-> runPhase(call.ret, k, result)]
  /\ seen' = IF last
             THEN seen \cup {[lines |-> Len(call.ret.timers[k].states), threw |-> result.threw]}
             ELSE seen

\* a phase of performDivination ends; after the last one castHexagram is called
RunPhase ==
  /\ call.fn # "idle"
  /\ \E k \in 1 .. Len(call.ret.timers) :
       /\ Due(call.ret, k, "phase")
       /\ IF call.ret.timers[k].index = Len(PhaseDelays)
          THEN PhaseEnds(k, TRUE, castHexagram(PageInput(call.ret, call.ret.timers[k],
                                                         ClockDate(now)),
                                               ClockDate(now), "id_a"))
          ELSE PhaseEnds(k, FALSE, [threw |-> FALSE])
  /\ UNCHANGED now

\* time passes while a timer is set and none is due
PageElapse ==
  /\ call.fn # "idle"
  /\ call.ret.timers # <<>>
  /\ \A k \in 1 .. Len(call.ret.timers) : call.ret.timers[k].left > 0
  /\ call' = [fn |-> "elapse", args |-> <<>>, ret |-> pageElapse(call.ret)]
  /\ UNCHANGED <<now, seen>>

InitPage ==
  /\ call = [fn |-> "CastPageContent", args |-> <<>>, ret |-> PageMounted]
  /\ now = 0
  /\ seen = {}

NextPage ==
  \/ SelectCategory
  \/ SelectGender
  \/ BackToCategory
  \/ Reset
  \/ FlipNextCoin
  \/ CoinLands
  \/ LineDone
  \/ RunPhase
  \/ PageElapse

SpecPage == InitPage /\ [][NextPage]_vars

\* ======================================================== properties
\* ------------------------------------------------------------ C1
\* the three bottom-to-top bits of lines lo..lo+2
Bits3(ys, lo) == <<Bit(ys[lo]), Bit(ys[lo + 1]), Bit(ys[lo + 2])>>

Yin == coinSumToYaoState(8)
Yang == coinSumToYaoState(7)
OldYin == coinSumToYaoState(6)

\* C1: resolving six line polarities returns the hexagram whose lower trigram is
\* the trigram of lines 1-3 and whose upper trigram is the trigram of lines 4-6;
\* yin,yin,yin,yang,yang,yang is TianDiPi, yang,yang,yang,yin,yin,yin is DiTianTai
\* and TianDiPi with line 1 moving changes into TianLeiWuWang.
C1_PrimaryHasLineTrigrams ==
  /\ call.fn = "getGuaFromYaoStates" =>
       /\ IsGua(call.ret)
       /\ call.ret.lowerGua = getBaGuaFromBinary(Bits3(call.args, 1))
       /\ call.ret.upperGua = getBaGuaFromBinary(Bits3(call.args, 4))
       /\ (call.args = <<Yin, Yin, Yin, Yang, Yang, Yang>> => call.ret.name = "TianDiPi")
       /\ (call.args = <<Yang, Yang, Yang, Yin, Yin, Yin>> => call.ret.name = "DiTianTai")
  /\ (call.fn = "getChangedGua" /\ call.args = <<OldYin, Yin, Yin, Yang, Yang, Yang>>) =>
       call.ret.name = "TianLeiWuWang"

\* ------------------------------------------------------------ C2
\* the key the six lines spell, bottom to top, yang = 1 and yin = 0
KeyOf(ys) == [i \in 1..Len(ys) |-> Bit(ys[i])]

AllKeys == [1..LineCount -> {0, 1}]

\* one entry per six-bit key; keys, names and sequence numbers pairwise distinct
TableIsBijective ==
  /\ Len(GUA_64_ENTRIES) = 64
  /\ \A k \in AllKeys : k \in GuaKeys
  /\ \A i, j \in 1..Len(GUA_64_ENTRIES) :
        i # j => /\ GUA_64_ENTRIES[i].key # GUA_64_ENTRIES[j].key
                 /\ GUA_64_ENTRIES[i].name # GUA_64_ENTRIES[j].name
                 /\ GUA_64_ENTRIES[i].sequence # GUA_64_ENTRIES[j].sequence

C4_Boundaries ==
  <<<<1, 6, "CHOU">>, <<2, 4, "YIN">>, <<3, 6, "MAO">>, <<4, 5, "CHEN">>,
    <<5, 6, "SI">>, <<6, 6, "WU">>, <<7, 7, "WEI">>, <<8, 8, "SHEN">>,
    <<9, 8, "YOU">>, <<10, 8, "XU">>, <<11, 7, "HAI">>, <<12, 7, "ZI">>>>

C4_BoundaryBranch(month, day) ==
  LET atOrBefore == {i \in 1..Len(C4_Boundaries) :
                       \/ C4_Boundaries[i][1] < month
                       \/ (C4_Boundaries[i][1] = month /\ C4_Boundaries[i][2] <= day)}
  IN IF atOrBefore = {} THEN "ZI"
     ELSE C4_Boundaries[CHOOSE i \in atOrBefore : \A j \in atOrBefore : j <= i][3]

\* C4: for every calendar date the month branch is the branch of the latest
\* solar-term boundary at or before the date (4 Feb YIN, 6 Mar MAO, ... 7 Dec ZI,
\* 6 Jan CHOU, 1-5 Jan ZI); 15 March resolves to MAO.
C4_MonthBranchFollowsBoundaries ==
  call.fn \in {"getGanZhiTime", "getMonthGanZhi"} =>
    LET zhi == IF call.fn = "getGanZhiTime" THEN call.ret.month.zhi ELSE call.ret.zhi
    IN /\ zhi = C4_BoundaryBranch(call.args.month, call.args.day)
       /\ (call.args.month = 3 /\ call.args.day = 15) => zhi = "MAO"

\* ------------------------------------------------------------ C7
\* C7: for every one of the 10 x 12 (stem, branch) day pairs the void branches
\* are the branches at (c + 10) mod 12 and (c + 11) mod 12, c = (branch index -
\* stem index) mod 12; the day jia-ZI has the void branches XU and HAI; the
\* void branches of a resolved timestamp are those of its day pillar.
C7_VoidBranches ==
  /\ call.fn = "getVoidBranches" =>
       LET c == (IndexOf(DI_ZHI, call.args[2]) - IndexOf(TIAN_GAN, call.args[1])) % 12
       IN /\ call.ret = <<DI_ZHI[((c + 10) % 12) + 1], DI_ZHI[((c + 11) % 12) + 1]>>
          /\ call.args = <<"jia", "ZI">> => call.ret = <<"XU", "HAI">>
  /\ call.fn = "getGanZhiTime" =>
       LET c == (IndexOf(DI_ZHI, call.ret.day.zhi) - IndexOf(TIAN_GAN, call.ret.day.gan)) % 12
       IN call.ret.voidBranches = <<DI_ZHI[((c + 10) % 12) + 1], DI_ZHI[((c + 11) % 12) + 1]>>

C7_Witness ==
  /\ call.fn = "getVoidBranches"
  /\ call.args = <<"jia", "ZI">>
  /\ call.ret = <<"XU", "HAI">>

\* ------------------------------------------------------------ C3
\* C3: two castings of the identical input (line states, timestamp, category,
\* flags) agree on the primary hexagram's name and key, on the branch and the
\* role of each of the six lines, on the focus role and on the trend, whatever
\* the wall clock shows and whatever was cast in between.
C3_Deterministic ==
  \A p \in seen : \A q \in seen : p.input = q.input => p.digest = q.digest

C3_Witness ==
  \E p \in seen : \E q \in seen : \E r \in seen :
    /\ p.input = q.input /\ p.at < q.at /\ p.digest = q.digest /\ ~p.digest.threw
    /\ r.input # p.input /\ p.at <= r.at /\ r.at <= q.at

\* ------------------------------------------------------------ C5
MovingMatchesDescriptor(yaoInfos, yaoStates) ==
  \A i \in 1..Len(yaoInfos) :
    /\ yaoInfos[i].isMoving = yaoStates[i].isMoving
    /\ HasChangedYao(yaoInfos[i]) <=> yaoInfos[i].isMoving

\* C5: each of the six primary lines carries a transformation descriptor
\* exactly when it is active: right after the line installer, still so after the
\* guardian assigner and after the strength analyzer (which leave the descriptor
\* as it was), and in every result.
C5_DescriptorIffMoving ==
  /\ call.fn \in {"cast_install", "cast_liushen", "cast_prosperity"} =>
       /\ Len(call.ret.primaryYaoInfos) = LineCount
       /\ MovingMatchesDescriptor(call.ret.primaryYaoInfos, call.args.yaoStates)
  /\ call.fn \in {"cast_liushen", "cast_prosperity"} =>
       \A i \in 1..LineCount :
         call.ret.primaryYaoInfos[i].changedYao = call.ret.before[i].changedYao
  /\ (call.fn = "castHexagram" /\ ~call.ret.threw) =>
       /\ Len(call.ret.primaryYao) = LineCount
       /\ MovingMatchesDescriptor(call.ret.primaryYao, call.args.yaoStates)

C5_Witness ==
  /\ call.fn = "cast_prosperity"
  /\ call.ret.primaryYaoInfos[1].isMoving /\ HasChangedYao(call.ret.primaryYaoInfos[1])
  /\ call.ret.primaryYaoInfos[1].changedYao.changeType = "advance"
  /\ ~call.ret.primaryYaoInfos[2].isMoving /\ ~HasChangedYao(call.ret.primaryYaoInfos[2])

\* ------------------------------------------------------------ C6
C6_TablePositions ==
  \A k \in DOMAIN GUA_64_DATA :
    /\ GUA_64_DATA[k].worldPosition \in 1..6
    /\ GUA_64_DATA[k].responsePosition \in 1..6
    /\ \/ GUA_64_DATA[k].worldPosition - GUA_64_DATA[k].responsePosition = 3
       \/ GUA_64_DATA[k].responsePosition - GUA_64_DATA[k].worldPosition = 3

\* C6: for each of the 64 hexagrams the world and response positions lie in
\* 1..6 and are 3 apart; the installed lines of any six line states have exactly
\* one world line and exactly one response line, at different positions; looking
\* either of them up never raises the missing-line error.
C6_OneWorldOneResponse ==
  /\ C6_TablePositions
  /\ call.fn = "cast_install" =>
       LET yaoInfos == call.ret.primaryYaoInfos
       IN /\ Cardinality({i \in 1..Len(yaoInfos) : yaoInfos[i].isWorld}) = 1
          /\ Cardinality({i \in 1..Len(yaoInfos) : yaoInfos[i].isResponse}) = 1
          /\ \A i \in 1..Len(yaoInfos) : ~(yaoInfos[i].isWorld /\ yaoInfos[i].isResponse)
  /\ call.fn = "getWorldYao" => (call.ret.position \in 1..6 /\ call.ret.isWorld /\ ~call.ret.isResponse)
  /\ call.fn = "getResponseYao" => (call.ret.position \in 1..6 /\ call.ret.isResponse /\ ~call.ret.isWorld)
  /\ call.fn = "castHexagram" => ~call.ret.threw

C6_Witness ==
  /\ call.fn = "getResponseYao"
  /\ call.ret.position = 2
  /\ call.args[5].isWorld
  /\ ~call.args[2].isWorld

\* ------------------------------------------------------------ C8
\* C8: with the subtype defaulted and no relationship flag the focus role for
\* the category career is the officer role and for wealth the wealth role, for
\* every hexagram, with or without such a line among the six; for every
\* category the focus is the primary target of the rule of the category's first
\* (default) subtype: that role, or the world line when the target is the world
\* line.
C8_FocusOfDefaultSubtype ==
  (call.fn = "castHexagram" /\ ~call.ret.threw
     /\ call.args.subType = "undefined" /\ call.args.gender = "undefined") =>
    LET category == call.args.questionCategory
        subType == QUESTION_SUBTYPES[category][1]
        target == YONG_SHEN_RULES[subType].primary
        yongShen == call.ret.yongShen
        lines == call.ret.primaryYao
        world == CHOOSE i \in 1..Len(lines) : lines[i].isWorld
    IN /\ category = "career" => yongShen.liuQin = "GuanGui"
       /\ category = "wealth" => yongShen.liuQin = "QiCai"
       /\ call.ret.questionSubType = subType
       /\ target \in {"FuMu", "XiongDi", "ZiSun", "QiCai", "GuanGui", "ShiYao"}
       /\ IF target = "ShiYao"
          THEN yongShen.liuQin = lines[world].liuQin /\ yongShen.positions = <<world>>
          ELSE /\ yongShen.liuQin = target
               /\ \A i \in 1..Len(lines) :
                    Includes(yongShen.positions, i) <=> lines[i].liuQin = target

C8_Witness ==
  /\ call.fn = "castHexagram"
  /\ call.args.questionCategory = "wealth"
  /\ call.ret.yongShen.liuQin = "QiCai"
  /\ call.ret.yongShen.positions = <<>>
  /\ \A i \in 1..LineCount : call.ret.primaryYao[i].liuQin # "QiCai"

\* ------------------------------------------------------------ C9
\* C9: whenever four or more of the six lines are active the trend is
\* 'uncertain', whatever the hexagram, the time, the category, the state of the
\* focus element and the other items tallied.
C9_ManyMovingIsUncertain ==
  (call.fn = "castHexagram" /\ ~call.ret.threw /\ Len(call.ret.movingYaoPositions) >= 4) =>
    call.ret.interpretation.trend = "uncertain"

\* ------------------------------------------------------------ C10
IsRiskItem(item) == item.type = "risk"

IsMovingNarrative(item) == Len(item.steps) > 0 /\ item.steps[1] = "DongYaoFenXi"

CountRiskItems(items) == Cardinality({k \in 1..Len(items) : IsRiskItem(items[k])})

CountMovingNarratives(items) ==
  Cardinality({k \in 1..Len(items) : IsMovingNarrative(items[k])})

CountTooManyNotes(notes) == Cardinality({k \in 1..Len(notes) : notes[k] = "DongYaoGuoDuo"})

\* C10: with four or more active lines the items hold exactly one 'risk' item
\* (the too-many-active-lines item, listing all active positions), no
\* active-line narrative item, and exactly one uncertainty note for it; with one
\* to three active lines exactly one active-line narrative item, of type
\* 'trend', and no risk item; with no active line neither.
C10_MovingItems ==
  (call.fn = "castHexagram" /\ ~call.ret.threw) =>
    LET moving == call.ret.movingYaoPositions
        items == call.ret.interpretation.items
        notes == call.ret.interpretation.uncertainties
    IN /\ moving = getMovingPositions(call.args.yaoStates)
       /\ Len(moving) >= 4 =>
            /\ CountRiskItems(items) = 1
            /\ \A k \in 1..Len(items) :
                 IsRiskItem(items[k]) =>
                   items[k].steps = <<"DuoYaoQiDong">> /\ items[k].relatedYao = moving
            /\ CountMovingNarratives(items) = 0
            /\ CountTooManyNotes(notes) = 1
       /\ Len(moving) \in 1..3 =>
            /\ CountMovingNarratives(items) = 1
            /\ \A k \in 1..Len(items) :
                 IsMovingNarrative(items[k]) =>
                   items[k].type = "trend" /\ items[k].relatedYao = moving
            /\ CountRiskItems(items) = 0
            /\ CountTooManyNotes(notes) = 0
       /\ Len(moving) = 0 =>
            /\ CountMovingNarratives(items) = 0
            /\ CountRiskItems(items) = 0
            /\ CountTooManyNotes(notes) = 0

C10_Witness ==
  /\ call.fn = "castHexagram"
  /\ call.ret.movingYaoPositions = <<1, 2, 4, 6>>
  /\ call.ret.interpretation.items[3].type = "risk"
  /\ call.ret.interpretation.items[3].relatedYao = <<1, 2, 4, 6>>

\* ------------------------------------------------------------ C11
\* C11: decoding the encoding of a result built from a valid casting input
\* gives a casting input with the same six draw values in the same order (so
\* the same polarity and active flag per line), the same category, the same
\* method, and the same timestamp.
C11_ShareRoundTrip ==
  call.fn = "decodeShared" =>
    /\ ~call.ret.isNull
    /\ Len(call.ret.yaoStates) = LineCount
    /\ \A i \in 1..LineCount :
         /\ call.ret.yaoStates[i].coinResult = call.args.input.yaoStates[i].coinResult
         /\ call.ret.yaoStates[i].yinYang = call.args.input.yaoStates[i].yinYang
         /\ call.ret.yaoStates[i].isMoving = call.args.input.yaoStates[i].isMoving
    /\ call.ret.questionCategory = call.args.input.questionCategory
    /\ call.ret.method = call.args.input.method
    /\ call.ret.time = call.args.input.time

C11_Witness ==
  /\ call.fn = "decodeShared"
  /\ call.args.input.method = "manual"
  /\ call.args.input.time = MkDate(2025, 1, 3, 23)
  /\ [i \in 1..LineCount |-> call.ret.yaoStates[i].coinResult] = <<6, 7, 8, 9, 9, 6>>
  /\ call.ret.time = MkDate(2025, 1, 3, 23)
  /\ call.ret.method = "manual"

\* ------------------------------------------------------------ C12
IsValidYao(yao) ==
  /\ yao.coinResult \in CoinSums
  /\ yao.yinYang = "yang" <=> yao.coinResult \in {7, 9}
  /\ yao.isMoving <=> yao.coinResult \in {6, 9}

\* C12: decoding a string that is not the encoding of a valid casting input
\* returns none: every decode result other than none has exactly six line
\* states, each with a draw value among 6, 7, 8, 9, yang iff the value is 7 or
\* 9, active iff it is 6 or 9, and a timestamp that is a number.
C12_MalformedDecodesToNull ==
  call.fn = "deserializeResult" =>
    \/ call.ret.isNull
    \/ /\ Len(call.ret.yaoStates) = LineCount
       /\ \A i \in 1..LineCount : IsValidYao(call.ret.yaoStates[i])
       /\ call.args.t.type = "number"

\* ------------------------------------------------------------ C13
Violations(input) ==
  {r \in {"yaoStates", "time", "questionCategory"} :
     \/ r \notin input.has
     \/ (r = "yaoStates" /\ Len(input.yaoStates) # LineCount)}

\* C13: validateCastingInput returns one message per violated requirement
\* (six line states, a timestamp, a category), hence the empty list iff all
\* three hold; and no step of castHexagram runs for an input whose validation
\* list is not empty.
C13_RejectedBeforePipeline ==
  /\ call.fn = "validateCastingInput" =>
       /\ Len(call.ret) = Cardinality(Violations(call.args))
       /\ \A i \in 1..Len(call.ret) : \A j \in 1..Len(call.ret) :
            call.ret[i] = call.ret[j] => i = j
       /\ call.ret = <<>> <=> Violations(call.args) = {}
  /\ call.fn = "castPartial" =>
       (validateCastingInput(call.args) # <<>> => call.ret.stages = <<>>)

\* ------------------------------------------------------------ C14
ActiveLines(yaoStates) == {i \in 1..Len(yaoStates) : yaoStates[i].isMoving}

\* C14: the changed hexagram is none iff no line is active; otherwise its key
\* is the primary key with exactly the active positions inverted, so it differs
\* from the primary hexagram and is the opposite hexagram when all six lines
\* are active. In every result the changed hexagram and the changed line list
\* are both present iff the list of active positions is not empty, and that
\* list is the ascending list of the positions of the active lines.
C14_ChangedHexagram ==
  (call.fn = "castHexagram" /\ ~call.ret.threw) =>
    LET active == ActiveLines(call.args.yaoStates)
        moving == call.ret.movingYaoPositions
        primary == call.ret.primaryGua
        changed == call.ret.changedGua
    IN /\ Len(moving) = Cardinality(active)
       /\ \A k \in 1..Len(moving) : moving[k] \in active
       /\ \A k \in 1..(Len(moving) - 1) : moving[k] < moving[k + 1]
       /\ IsGua(changed) <=> active # {}
       /\ Len(call.ret.changedYao) = LineCount <=> active # {}
       /\ active = {} => (changed.name = "undefined" /\ call.ret.changedYao = <<>>)
       /\ active # {} =>
            /\ \A i \in 1..LineCount :
                 changed.binary[i] = IF i \in active THEN 1 - primary.binary[i]
                                     ELSE primary.binary[i]
            /\ changed.binary # primary.binary
            /\ changed.name # primary.name
            /\ changed = SpreadGua(changed.binary)
       /\ active = 1..LineCount => changed = call.ret.oppositeGua

C14_Witness ==
  /\ call.fn = "castHexagram"
  /\ call.ret.movingYaoPositions = <<2, 5, 6>>
  /\ call.ret.primaryGua.binary = <<1, 0, 1, 0, 1, 0>>
  /\ call.ret.changedGua.binary = <<1, 1, 1, 0, 0, 1>>
  /\ Len(call.ret.changedYao) = LineCount

\* ------------------------------------------------------------ C15
\* the guardian after g in the cycle QingLong, ZhuQue, GouChen, TengShe, BaiHu,
\* XuanWu
NextGuardian(g) ==
  CASE g = "QingLong" -> "ZhuQue" [] g = "ZhuQue" -> "GouChen" [] g = "GouChen" -> "TengShe"
    [] g = "TengShe" -> "BaiHu" [] g = "BaiHu" -> "XuanWu" [] g = "XuanWu" -> "QingLong"

\* the six guardians of the lines follow the cycle and are pairwise distinct
CyclicGuardians(guardians) ==
  /\ Len(guardians) = LineCount
  /\ \A i \in 1..(LineCount - 1) : guardians[i + 1] = NextGuardian(guardians[i])
  /\ \A i \in 1..LineCount : \A j \in 1..LineCount : guardians[i] = guardians[j] => i = j

\* the guardians handed out by the call in progress
GuardiansOfCall ==
  IF call.fn = "getLiuShenArray" THEN call.ret
  ELSE [i \in 1..Len(call.ret) |-> call.ret[i].liuShen]

\* the day stem of the call in progress
DayGanOfCall == call.args[Len(call.args)]

\* C15 as stated: the ten stems form five pairs (jia yi, bing ding, wu ji, geng
\* xin, ren gui), both stems of a pair give the same starting guardian, and the
\* six lines carry the guardians in the cyclic order from that start.
C15_PairedStems ==
  call.fn \in {"getLiuShenArray", "installLiuShen"} =>
    /\ CyclicGuardians(GuardiansOfCall)
    /\ \A g \in 1..Len(TIAN_GAN) :
         (g - 1) \div 2 = getTianGanIndex(DayGanOfCall) \div 2 =>
           getStartLiuShen(TIAN_GAN[g]) = GuardiansOfCall[1]

\* C15, amended: the starting guardian depends only on the day stem, by six
\* groups: jia yi - QingLong, bing ding - ZhuQue, wu - GouChen, ji - TengShe,
\* geng xin - BaiHu, ren gui - XuanWu; lines 1 to 6 carry the six guardians in
\* the cyclic order from that start, pairwise distinct, each line the successor
\* of the line below; installing changes no other member of a line.
C15_Guardians ==
  call.fn \in {"getLiuShenArray", "installLiuShen"} =>
    /\ CyclicGuardians(GuardiansOfCall)
    /\ GuardiansOfCall[1] =
         (CASE DayGanOfCall \in {"jia", "yi"} -> "QingLong"
            [] DayGanOfCall \in {"bing", "ding"} -> "ZhuQue"
            [] DayGanOfCall = "wu" -> "GouChen"
            [] DayGanOfCall = "ji" -> "TengShe"
            [] DayGanOfCall \in {"geng", "xin"} -> "BaiHu"
            [] DayGanOfCall \in {"ren", "gui"} -> "XuanWu")
    /\ call.fn = "installLiuShen" =>
         \A i \in 1..LineCount :
           [call.ret[i] EXCEPT !.liuShen = "QingLong"] = call.args[1][i]

C15_Witness ==
  /\ call.fn = "installLiuShen"
  /\ call.args[2] = "ji"
  /\ [i \in 1..LineCount |-> call.ret[i].liuShen]
       = <<"TengShe", "BaiHu", "XuanWu", "QingLong", "ZhuQue", "GouChen">>

\* ------------------------------------------------------------ C16
\* a generates b in the cycle wood, fire, earth, metal, water
Generates(a, b) ==
  <<a, b>> \in {<<"wood", "fire">>, <<"fire", "earth">>, <<"earth", "metal">>,
                <<"metal", "water">>, <<"water", "wood">>}

\* a dominates b in the cycle wood, earth, water, fire, metal
Dominates(a, b) ==
  <<a, b>> \in {<<"wood", "earth">>, <<"earth", "water">>, <<"water", "fire">>,
                <<"fire", "metal">>, <<"metal", "wood">>}

\* the month tier of a line element under a month element, as stated
MonthTier(line, month) ==
  CASE line = month -> "wang"
    [] Generates(month, line) -> "xiang"
    [] Generates(line, month) -> "xiu"
    [] Dominates(line, month) -> "qiu"
    [] Dominates(month, line) -> "si"

\* C16: the month tier is peak iff line and month are the same element,
\* supported iff the month element generates the line element, resting iff the
\* line element generates the month element, constrained iff the line element
\* dominates the month element, weakest iff the month element dominates the
\* line element.
C16_MonthTier ==
  /\ call.fn = "getProsperityByMonth" => call.ret = MonthTier(call.args[1], call.args[2])
  /\ call.fn = "analyzeProsperity" =>
       call.ret.monthProsperity = MonthTier(call.args[1].wuXing, call.args[2].monthWuXing)

\* ------------------------------------------------------------ C17
\* C17: for every active line at position p the transformation descriptor has
\* the inverse polarity of the line, and its branch and element are those of
\* the line at position p in the changed hexagram's installed line list, also
\* when several lines of one trigram are active.
C17_DescriptorMatchesChangedLine ==
  (call.fn = "castHexagram" /\ ~call.ret.threw) =>
    \A p \in ActiveLines(call.args.yaoStates) :
      LET yao == call.ret.primaryYao[p]
          changedLine == call.ret.changedYao[p]
      IN /\ HasChangedYao(yao)
         /\ yao.changedYao.yinYang # yao.yinYang
         /\ yao.changedYao.yinYang = changedLine.yinYang
         /\ yao.changedYao.diZhi = changedLine.diZhi
         /\ yao.changedYao.wuXing = changedLine.wuXing

\* ------------------------------------------------------------ C18
\* the two branches stand in the relation of the kind, by the fixed tables
StandsIn(kind, zhi1, zhi2) ==
  CASE kind = "six_clash" -> DI_ZHI_CHONG[zhi1] = zhi2
    [] kind = "six_harmony" -> DI_ZHI_HE[zhi1] = zhi2
    [] kind = "six_harm" -> DI_ZHI_HAI[zhi1] = zhi2
    [] kind = "three_penalty" -> zhi2 \in DI_ZHI_XING[zhi1]

\* the list holds a finding of the kind naming line i and the other party
HasFinding(relations, kind, i, otherKind, otherPosition) ==
  \E k \in 1..Len(relations) :
    /\ relations[k].type = kind
    /\ relations[k].position = i
    /\ relations[k].otherKind = otherKind
    /\ relations[k].otherPosition = otherPosition

\* C18: for each of the kinds opposition, union, harm and mutual injury, for
\* every unordered pair of the six lines and for every line against the day
\* branch and against the month branch, the finding list holds a finding of
\* that kind naming the two parties iff the two branches stand in that relation
\* by the fixed tables (self-injury of an equal branch included).
C18_RelationsCompleteAndExact ==
  call.fn = "cast_relations" =>
    LET yaoInfos == call.ret.primaryYaoInfos
        relations == call.ret.relations
    IN \A kind \in {"six_clash", "six_harmony", "six_harm", "three_penalty"} :
         /\ \A i \in 1..LineCount : \A j \in (i + 1)..LineCount :
              HasFinding(relations, kind, i, "yao", j)
                <=> StandsIn(kind, yaoInfos[i].diZhi, yaoInfos[j].diZhi)
         /\ \A i \in 1..LineCount :
              /\ HasFinding(relations, kind, i, "day", 0)
                   <=> StandsIn(kind, yaoInfos[i].diZhi, call.ret.ganZhiTime.day.zhi)
              /\ HasFinding(relations, kind, i, "month", 0)
                   <=> StandsIn(kind, yaoInfos[i].diZhi, call.ret.ganZhiTime.month.zhi)

\* ------------------------------------------------------------ C19
\* the triad sets of which at least two branches occur among the lines
TriadsMet(yaoInfos) ==
  {e \in 1..Len(DI_ZHI_SAN_HE) :
     Cardinality({yaoInfos[i].diZhi : i \in 1..Len(yaoInfos)} \cap DI_ZHI_SAN_HE[e].zhis) >= 2}

\* C19: when all three branches of a triad set occur among the six lines, or
\* exactly two of them, the relation analysis reports a triad-union finding
\* for the element of the first such set scanned, and only for that one; when
\* no set is met by two branches it reports none.
C19_TriadUnionReported ==
  call.fn = "cast_relations" =>
    LET met == TriadsMet(call.ret.primaryYaoInfos)
        first == CHOOSE e \in met : \A f \in met : e <= f
        triads == {k \in 1..Len(call.ret.relations) :
                     call.ret.relations[k].type = "three_harmony"}
    IN IF met = {} THEN triads = {}
       ELSE /\ Cardinality(triads) = 1
            /\ \A k \in triads : call.ret.relations[k].otherZhi = DI_ZHI_SAN_HE[first].wuXing

\* ------------------------------------------------------------ C20
\* C20: for a timestamp with hour 23 the hour branch is ZI and the day pillar
\* reported (with its void branches) is that of the next calendar day, the one
\* the hour stem is derived from; so at every hour 0..23 the reported pillars
\* satisfy hourStemIndex = (2 * (dayStemIndex mod 5) + hourBranchIndex) mod 10,
\* with hourBranchIndex 0 for the hours 23 and 0 and floor((hour + 1) / 2)
\* otherwise.
C20_LateHourBelongsToNextDay ==
  call.fn = "getGanZhiTime" =>
    LET hour == call.args.hour
        hourBranchIndex == IF hour \in {23, 0} THEN 0 ELSE (hour + 1) \div 2
        nextDay == getDayGanZhi(PlusOneDay(call.args))
    IN /\ call.ret.hour.zhi = DI_ZHI[hourBranchIndex + 1]
       /\ IndexOf(TIAN_GAN, call.ret.hour.gan)
            = (2 * (IndexOf(TIAN_GAN, call.ret.day.gan) % 5) + hourBranchIndex) % 10
       /\ hour = 23 =>
            /\ call.ret.hour.zhi = "ZI"
            /\ call.ret.day = nextDay
            /\ call.ret.voidBranches = getVoidBranches(nextDay.gan, nextDay.zhi)

\* ------------------------------------------------------------ C21
\* the weight of an item in the tally: support +1, obstacle -1, risk -2, and
\* nothing for the types trend, timing and advice
ItemWeight(item) ==
  CASE item.type = "support" -> 1
    [] item.type = "obstacle" -> 0 - 1
    [] item.type = "risk" -> 0 - 2
    [] OTHER -> 0

RECURSIVE SumWeights(_)
SumWeights(items) ==
  IF items = <<>> THEN 0 ELSE ItemWeight(Head(items)) + SumWeights(Tail(items))

\* the tally of an interpretation: the weights of its items and twice the
\* weight of the focus-element item (the first item) when that is a support or
\* an obstacle item
TallyOf(items) ==
  SumWeights(items)
    + (IF items[1].type \in {"support", "obstacle"} THEN 2 * ItemWeight(items[1]) ELSE 0)

TrendOfTally(tally) ==
  IF tally >= 4 THEN "very_favorable"
  ELSE IF tally >= 2 THEN "favorable"
  ELSE IF tally >= 0 - 1 THEN "neutral"
  ELSE IF tally >= 0 - 3 THEN "unfavorable"
  ELSE "very_unfavorable"

\* C21: the trend is 'uncertain' iff at least two uncertainty notes were
\* logged; otherwise it is the band of the tally (+1 per support item, -1 per
\* obstacle item, -2 per risk item, +2 or -2 more for the focus-element item):
\* very_favorable from 4, favorable for 2..3, neutral for -1..1, unfavorable
\* for -3..-2, very_unfavorable up to -4.  Items of type trend, timing and
\* advice do not change the tally.
C21_TrendOfTally ==
  (call.fn = "castHexagram" /\ ~call.ret.threw) =>
    LET interpretation == call.ret.interpretation
    IN /\ interpretation.trend = "uncertain" <=> Len(interpretation.uncertainties) >= 2
       /\ Len(interpretation.uncertainties) < 2 =>
            interpretation.trend = TrendOfTally(TallyOf(interpretation.items))

\* one uncertainty note, a trend item among the items, and a tally in a band
C21_Witness ==
  /\ call.fn = "castHexagram"
  /\ ~call.ret.threw
  /\ Len(call.ret.interpretation.uncertainties) = 1
  /\ \E k \in 1..Len(call.ret.interpretation.items) :
       call.ret.interpretation.items[k].type = "trend"
  /\ TallyOf(call.ret.interpretation.items) = 0 - 3
  /\ call.ret.interpretation.trend = "unfavorable"

\* ------------------------------------------------------------ C22
\* the familial roles
LiuQinSet == {"FuMu", "XiongDi", "ZiSun", "QiCai", "GuanGui"}

\* the focus role asked for is a familial role that none of the six lines has
FocusHidden(result) ==
  /\ result.questionSubType \in DOMAIN YONG_SHEN_RULES
  /\ YONG_SHEN_RULES[result.questionSubType].primary \in LiuQinSet
  /\ \A i \in 1..Len(result.primaryYao) :
       result.primaryYao[i].liuQin # YONG_SHEN_RULES[result.questionSubType].primary

\* C22: for every well-formed casting input (six line states, any category,
\* subtype, relationship flag and timestamp) castHexagram returns a full
\* result without raising.  When the focus role selected does not occur among
\* the six lines, the selection keeps that role with an empty position list
\* (offering the rule's secondary role as alternative when it is a familial
\* role), the first item is an obstacle item, exactly one uncertainty note is
\* logged for it, and there is no void/broken narrative and no timing
\* prediction.
C22_HiddenFocusDegrades ==
  call.fn = "castHexagram" =>
    /\ ~call.ret.threw
    /\ Len(call.ret.primaryYao) = LineCount
    /\ IsGua(call.ret.primaryGua)
    /\ FocusHidden(call.ret) =>
         LET rule == YONG_SHEN_RULES[call.ret.questionSubType]
             interpretation == call.ret.interpretation
         IN /\ call.ret.yongShen.liuQin = rule.primary
            /\ call.ret.yongShen.positions = <<>>
            /\ call.ret.yongShen.alternatives
                 = IF rule.secondary \in LiuQinSet THEN <<rule.secondary>> ELSE <<>>
            /\ interpretation.items[1].type = "obstacle"
            /\ interpretation.items[1].steps = <<"YongShenBuXian">>
            /\ Cardinality({k \in 1..Len(interpretation.uncertainties) :
                              interpretation.uncertainties[k] = "YongShenBuXian"}) = 1
            /\ \A k \in 1..Len(interpretation.items) :
                 interpretation.items[k].steps \notin
                   {<<"YongShenKongWang">>, <<"YuePo">>, <<"RiPo">>}
            /\ interpretation.timingPredictions = <<>>

\* an exam question on a hexagram without a parent line: the officer role is
\* offered as the alternative
C22_Witness ==
  /\ call.fn = "castHexagram"
  /\ ~call.ret.threw
  /\ call.ret.questionSubType = "study_exam"
  /\ FocusHidden(call.ret)
  /\ call.ret.yongShen.alternatives = <<"GuanGui">>
  /\ call.ret.interpretation.timingPredictions = <<>>

\* ------------------------------------------------------------ C23
\* C23: for the category love with the relationship flag (or the subtype)
\* same_sex the focus element is the response line, which stands for the
\* partner: the position list of the selection is exactly the position of the
\* response line of the primary hexagram and its role is that line's role.
C23_SameSexFocusIsResponse ==
  (/\ call.fn = "castHexagram"
   /\ ~call.ret.threw
   /\ call.args.questionCategory = "love"
   /\ (call.args.subType = "same_sex" \/ call.args.gender = "same_sex")) =>
    LET responseYao == getResponseYao(call.ret.primaryYao)
    IN /\ call.ret.yongShen.positions = <<responseYao.position>>
       /\ call.ret.yongShen.liuQin = responseYao.liuQin

\* ------------------------------------------------------------ C24
\* the day a date lies on, counted from the epoch
DayOf(date) == DayNumber(date.year, date.month, date.day)

\* C24: the timing predictions are a function of the casting input alone: the
\* search for matching days (90 days) and months (12 months) starts from the
\* casting timestamp, so two castings of one input made at different
\* wall-clock times report the same predictions (same count, dates and
\* months); at most three predictions are made, and every date reported lies
\* strictly after the start, within the horizon, on a day of the branch
\* waited for.
C24_TimingFromInputAlone ==
  /\ \A a, b \in seen : a.input = b.input => a.timing = b.timing
  /\ \A a \in seen :
       /\ Len(a.timing) <= 3
       /\ \A k \in 1..Len(a.timing) :
            \A j \in 1..Len(a.timing[k].dates) :
              LET date == a.timing[k].dates[j]
              IN /\ DayOf(date) > DayOf(a.input.time)
                 /\ DayOf(date) <= DayOf(a.input.time) + SearchDays
                 /\ getDayGanZhi(date).zhi \in {a.timing[k].zhi, a.timing[k].clashZhi}

\* ------------------------------------------------------------ C25
\* the chain a call holds: the local reasoningChain while castHexagram runs,
\* fullReasoningChain of the result when it has returned
ChainOf(c) ==
  IF c.fn = "castHexagram" THEN (IF c.ret.threw THEN <<>> ELSE c.ret.fullReasoningChain)
  ELSE IF c.fn \in {"cast_time", "cast_primary", "cast_install", "cast_liushen",
                    "cast_prosperity", "cast_changed", "cast_relations"}
  THEN c.ret.reasoningChain
  ELSE <<>>

IsPrefix(s, t) == Len(s) <= Len(t) /\ SubSeq(t, 1, Len(s)) = s

RuleNames(chain) == [k \in 1..Len(chain) |-> chain[k].ruleName]

\* the rule names a finished casting must list
ExpectedRuleNames(result) ==
  <<"ShiJianZhuanHuan", "BenGuaQueDing", "NaJiaZhuangGua", "AnLiuShen", "WangShuaiFenXi">>
  \o (IF Len(result.movingYaoPositions) >= 1 THEN <<"BianGuaQueDing">> ELSE <<>>)
  \o (IF Len(result.relations) > 0 THEN <<"GuanXiFenXi">> ELSE <<>>)
  \o <<"YongShenXuanQu">>

ChainComplete ==
  (call.fn = "castHexagram" /\ ~call.ret.threw) =>
    /\ RuleNames(call.ret.fullReasoningChain) = ExpectedRuleNames(call.ret)
    /\ Len(call.ret.fullReasoningChain) \in 6..8
    /\ \A k \in 1..Len(call.ret.fullReasoningChain) :
         /\ call.ret.fullReasoningChain[k].ruleName # ""
         /\ call.ret.fullReasoningChain[k].conclusion # <<>>
         /\ \A j \in 1..Len(call.ret.fullReasoningChain[k].conclusion) :
              call.ret.fullReasoningChain[k].conclusion[j] # ""

\* a stage keeps every step logged before it, and adds steps only at the end
ChainGrows ==
  (call.fn # "idle" /\ call'.fn # "idle") => IsPrefix(ChainOf(call), ChainOf(call'))

\* C25: the reasoning chain is append-only and ordered by stage: it consists
\* of the steps time conversion, primary hexagram, branch installation,
\* guardians, strength analysis, then changed hexagram iff at least one line is
\* active, then relation analysis iff the relation list is not empty, then
\* focus selection, in this order (6 to 8 steps); every step has a non-empty
\* rule name and conclusion, and no step logged earlier is changed or removed
\* by a later stage.
C25_ChainAppendOnly == [](ChainComplete) /\ [][ChainGrows]_vars

\* a casting without active line and with relation findings: seven steps
C25_Witness ==
  /\ call.fn = "castHexagram"
  /\ ~call.ret.threw
  /\ call.ret.movingYaoPositions = <<>>
  /\ Len(call.ret.relations) > 0
  /\ Len(call.ret.fullReasoningChain) = 7
  /\ call.ret.fullReasoningChain[6].ruleName = "GuanXiFenXi"

\* ------------------------------------------------------------ C26
\* the role the five-phase cycle gives a line of element E in a palace of
\* element H
RoleByCycle(H, E) ==
  {role \in {"FuMu", "ZiSun", "GuanGui", "QiCai", "XiongDi"} :
     \/ role = "FuMu" /\ Generates(E, H)
     \/ role = "ZiSun" /\ Generates(H, E)
     \/ role = "GuanGui" /\ Dominates(E, H)
     \/ role = "QiCai" /\ Dominates(H, E)
     \/ role = "XiongDi" /\ E = H}

\* C26: for every home-palace element H and line element E (the element of
\* the line's branch) the role is parent iff E generates H, offspring iff H
\* generates E, officer iff E dominates H, wealth iff H dominates E, sibling
\* iff E = H; exactly one case applies, so for each H the five elements map
\* one-to-one onto the five roles (metal palace: earth parent, water
\* offspring, fire officer, wood wealth, metal sibling).
C26_RoleByCycle ==
  /\ call.fn = "idle" =>
       /\ \A H \in WuXingSet :
            /\ \A E \in WuXingSet : RoleByCycle(H, E) = {getLiuQin(H, E)}
            /\ Cardinality({getLiuQin(H, E) : E \in WuXingSet}) = 5
       /\ <<getLiuQin("metal", "earth"), getLiuQin("metal", "water"),
            getLiuQin("metal", "fire"), getLiuQin("metal", "wood"),
            getLiuQin("metal", "metal")>>
            = <<"FuMu", "ZiSun", "GuanGui", "QiCai", "XiongDi">>
  /\ (call.fn = "castHexagram" /\ ~call.ret.threw) =>
       \A i \in 1..Len(call.ret.primaryYao) :
         LET line == call.ret.primaryYao[i]
         IN /\ line.wuXing = DI_ZHI_WU_XING[line.diZhi]
            /\ RoleByCycle(call.ret.primaryGua.wuXing, line.wuXing) = {line.liuQin}

\* a hexagram of the metal palace with an officer line of fire and a wealth
\* line of wood
C26_Witness ==
  /\ call.fn = "castHexagram"
  /\ ~call.ret.threw
  /\ call.ret.primaryGua.wuXing = "metal"
  /\ \E i, j \in 1..LineCount :
       /\ call.ret.primaryYao[i].wuXing = "fire" /\ call.ret.primaryYao[i].liuQin = "GuanGui"
       /\ call.ret.primaryYao[j].wuXing = "wood" /\ call.ret.primaryYao[j].liuQin = "QiCai"

\* ------------------------------------------------------------ C27
\* what a replayed result must reproduce: the primary hexagram, the branch and
\* the role of every line, the focus selection (role and positions), the trend
ReplayDigest(result) ==
  [primaryGua |-> result.primaryGua,
   diZhi |-> [i \in 1..Len(result.primaryYao) |-> result.primaryYao[i].diZhi],
   liuQin |-> [i \in 1..Len(result.primaryYao) |-> result.primaryYao[i].liuQin],
   yongShenLiuQin |-> result.yongShen.liuQin,
   yongShenPositions |-> result.yongShen.positions,
   trend |-> result.interpretation.trend]

\* C27: for every original casting input (every category, subtype and
\* relationship flag), running the pipeline on the input decoded from the
\* result's share code reproduces the original result's primary hexagram,
\* line branches and roles, focus selection (role and positions) and trend.
C27_ReplayReproduces ==
  call.fn = "castDecoded" =>
    /\ ~call.ret.threw
    /\ ReplayDigest(call.ret) = ReplayDigest(call.args)

\* ------------------------------------------------------------ C28
\* the focus element is manifest, and its first located line has a month tier
\* of peak or supported and is neither void nor broken by the day or the month
FocusIsSound(result) ==
  LET found == findYongShenYao(result.primaryYao, result.yongShen)
  IN /\ found # <<>>
     /\ MonthTier(found[1].wuXing, result.ganZhiTime.monthWuXing) \in {"wang", "xiang"}
     /\ ~found[1].isVoid
     /\ ~found[1].isDayBroken
     /\ ~found[1].isMonthBroken

\* C28: the trend is favorable or very_favorable only if the focus element is
\* manifest and its (first located) line has month tier peak or supported and
\* is neither void nor day-broken nor month-broken; whenever the focus element
\* is hidden, weak, void or broken the trend is neutral, unfavorable,
\* very_unfavorable or uncertain, whatever the relation findings and the
\* strength of the self line.
C28_FavorableNeedsSoundFocus ==
  (call.fn = "castHexagram" /\ ~call.ret.threw) =>
    (call.ret.interpretation.trend \in {"favorable", "very_favorable"}
       => FocusIsSound(call.ret))

\* ------------------------------------------------------------ C30
\* C30: in the three-coin widget no reported coin value is lost, however the
\* flip timers interleave: once each of the three coins has reported for the
\* line, exactly one hand-over of the line is under way, with the sum (6..9) of
\* the three reported values, and after it the widget is reset.
C30_NoCoinValueLost ==
  (call.fn \in {"coinTimer", "elapse", "flipCoin", "resetLine", "completeTimer"}
     /\ \A index \in CoinIndexes : call.ret.reported[index] # Undefined) =>
    /\ Len(call.ret.timers) = 1
    /\ call.ret.timers[1].sum =
         call.ret.reported[0] + call.ret.reported[1] + call.ret.reported[2]
    /\ call.ret.timers[1].sum \in 6 .. 9

\* ------------------------------------------------------------ C29
\* the pipeline runs of the page that are being processed
RunsInProgress(p) == Cardinality({k \in 1 .. Len(p.timers) : p.timers[k].kind = "phase"})

\* C29: on the cast page castHexagram is only ever invoked with exactly six
\* line states; once the sixth line of a coin casting is completed no further
\* line is added to it, and no second pipeline run is started while the first
\* is still being processed.
C29_SixLinesOneRun ==
  /\ \A invocation \in seen : invocation.lines = LineCount
  /\ Len(call.ret.casting.yaoResults) <= LineCount
  /\ RunsInProgress(call.ret) <= 1
====
